---- MODULE Spec2Model ----
(***************************************************************************)
(* Model of the agent core of ll-html: the REACT loop of                   *)
(* agents/react_agent.py (ReactAgent.execute and the steps it calls), the  *)
(* repair agent of agents/validation_agent.py and the validation           *)
(* orchestrator of agents/validation_tools.py.                             *)
(*                                                                         *)
(* The language model, the research tools and the regex analyzers are the  *)
(* environment: every answer they can give is an input chosen with \E.     *)
(* A generated content is represented by the keys it carries and by what   *)
(* each of the three analyzers finds in it.                                *)
(***************************************************************************)
EXTENDS Integers, Sequences, FiniteSets, TLC

\* ---------------------------------------------------------------- bounds
MaxIterationsSetting == 3   \* largest AGENT_MAX_ITERATIONS explored
MaxLLMCallsSetting == 4     \* largest AGENT_MAX_LLM_CALLS explored
MaxExecutions == 2          \* agents constructed one after the other
MaxHtmlIssues == 4          \* issues one HTML analysis may report
MaxJsIssues == 3            \* issues one JavaScript analysis may report
MaxDepIssues == 3           \* issues one dependency analysis may report
MaxFlowHtmlIssues == 2      \* HTML issues of the contents fed to the repair flow
MaxFlowJsIssues == 1        \* JavaScript issues of the contents fed to the repair flow
MaxAgentIssues == 1         \* HTML issues of the contents the agent's model calls return
MaxResumedIterations == 1   \* largest AGENT_MAX_ITERATIONS with which a session is resumed
MaxResumedSteps == 1        \* most reasoning steps in a context that is resumed
MaxFleetIterations == 1     \* largest AGENT_MAX_ITERATIONS of agents that run at the same time
MaxFleetLLMCalls == 2       \* largest AGENT_MAX_LLM_CALLS of agents that run at the same time
MaxJsLen == 4               \* longest JavaScript text explored
MaxStatements == 2          \* most statements of a text handed to the endpoint extractor
MaxTags == 4                \* most tags of a text handed to the tag-balance scan
MaxBodyLen == 4             \* longest string body of a generation response explored

\* ------------------------------------------------------- program constants
max_fix_attempts == 2
MinSuccessfulToolCalls == 2
HtmlHighAbove == 3
JsHighAbove == 2
DepHighAbove == 2

\* ------------------------------------------------------------- vocabulary
None == "None"
Raised == -1                \* an analyzer whose regex pass raised

RequiredFields == {"title", "description", "main_content", "custom_css", "custom_js"}

RegisteredTools == {"web_search", "validate_api_endpoint", "fetch_stac_sample_data",
                    "validate_html_endpoints"}

\* Names the model may put in the "action" key of its decision.  ListName
\* stands for a JSON array or object.
ListName == "<list>"
ToolChoices == {"fetch_stac_sample_data", "web_search", "bogus_tool", ListName}

IsStringName(n) == n # ListName

VARIABLES
    pc,                    \* position of the running execution
    executions,            \* agents constructed so far
    client,                \* self.client is not None
    max_iterations,
    max_llm_calls,
    iterations_completed,
    llm_calls_made,
    context,               \* self.context
    session,               \* the persisted AgentSession row
    action,                \* the decision returned by the reasoning step
    html_content,          \* content in force inside _generate_final_html
    html_validation,       \* result of _validate_and_fix_html
    url_validation,        \* result of _validate_generated_urls
    model_calls,           \* every chat.completions.create of this execution
    result,                \* what execute returned
    phases,                \* the calls of this execution, in the order they were made
    va,                    \* one ValidationAgent.validate_and_fix call
    orch,                  \* one ValidationOrchestrator call
    fleet,                 \* agents that run at the same time, and the session table
    jsv,                   \* one JavaScriptValidator call
    extractor,             \* one ValidateHTMLEndpointsTool call
    htmlv,                 \* one HTMLStructureValidator._find_unclosed_tags call
    escaping               \* one parse of a generation response, lines 792-811

vars == <<pc, executions, client, max_iterations, max_llm_calls, iterations_completed,
          llm_calls_made, context, session, action, html_content, html_validation,
          url_validation, model_calls, result, phases, va, orch, fleet,
          jsv, extractor, htmlv, escaping>>

agentVars == <<pc, executions, client, max_iterations, max_llm_calls, iterations_completed,
               llm_calls_made, context, session, action, html_content, html_validation,
               url_validation, model_calls, result, phases>>

\* =====================================================================
\* agents/validation_tools.py
\* =====================================================================

\* What a check of the URLs in a content would find: "invalid" when at
\* least one of them is inaccessible or relative.
UrlKinds == {"ok", "invalid"}

\* A content mapping: the keys it carries, for each analyzer the number
\* of issues its regex pass finds in the content (Raised: the pass raises,
\* as it does on a field that is not a string), and its URLs.
Contents ==
    [shape : {"dict"}, fields : {RequiredFields, RequiredFields \ {"custom_js"}},
     urls : UrlKinds,
     html : {Raised} \cup (0..MaxHtmlIssues),
     js : {Raised} \cup (0..MaxJsIssues),
     dep : {Raised} \cup (0..MaxDepIssues)]

\* The contents the repair flow is exercised with.
FlowContents ==
    {c \in Contents : /\ c.html \in 0..MaxFlowHtmlIssues
                      /\ c.js \in 0..MaxFlowJsIssues
                      /\ c.dep = 0
                      /\ c.urls = "ok"}

\* The contents the generation call of the agent is exercised with.
AgentContents ==
    {c \in Contents : /\ c.html \in 0..MaxAgentIssues /\ c.js = 0 /\ c.dep = 0
                      /\ (c.fields = RequiredFields \/ c.html = MaxAgentIssues)
                      /\ (c.urls = "ok" \/ c.fields = RequiredFields)}

\* The contents the repair calls made inside the agent answer with.
AgentFixContents == {c \in AgentContents : c.fields = RequiredFields /\ c.urls = "ok"}

\* A content that has every required field and no issue.
CleanContent ==
    [shape |-> "dict", fields |-> RequiredFields, urls |-> "ok", html |-> 0, js |-> 0, dep |-> 0]

\* json.loads gave a string (or list) in which every required name occurs:
\* the "field not in html_content" test of the callers lets it through.
StrContent ==
    [shape |-> "str", fields |-> {}, urls |-> "ok", html |-> 0, js |-> 0, dep |-> 0]

\* Python's None where a content mapping is expected.
NoneContent ==
    [shape |-> "none", fields |-> {}, urls |-> "ok", html |-> 0, js |-> 0, dep |-> 0]

Severity(n, highAbove) ==
    IF n > highAbove THEN "high" ELSE IF n > 0 THEN "medium" ELSE "low"

\* The "issues" list of an analyzer that found n issues: one text per issue.
IssueList(name, n) == [i \in 1..n |-> <<name, i>>]

\* What an analyzer returns: issues is the length of its "issues" list and
\* issue_list the list.  An analyzer that raised reports the one issue
\* "<name> validation failed", written <<name, 0>>, and no severity.
AnalyzerResult(name, n, highAbove) ==
    IF n = Raised
    THEN [success |-> FALSE, issues |-> 1, severity |-> None,
          issue_list |-> <<<<name, 0>>>>]
    ELSE [success |-> TRUE, issues |-> n, severity |-> Severity(n, highAbove),
          issue_list |-> IssueList(name, n)]

HtmlValidate(c) == AnalyzerResult("HTML", c.html, HtmlHighAbove)
JsValidate(c) == AnalyzerResult("JavaScript", c.js, JsHighAbove)
DepValidate(c) == AnalyzerResult("Dependency", c.dep, DepHighAbove)

\* AggregateOne with the test on the running maximum left out: a medium
\* result overwrites a high one.
AggregateOne_LastWins(acc, r) ==
    IF r.success
    THEN [issues |-> acc.issues + r.issues,
          all_issues |-> acc.all_issues \o r.issue_list,
          max_severity |-> IF r.severity = "high" \/ r.severity = "medium"
                           THEN r.severity ELSE acc.max_severity]
    ELSE acc

\* One pass of the aggregation loop over one analyzer result.
AggregateOne(acc, r) ==
    IF r.success
    THEN [issues |-> acc.issues + r.issues,
          all_issues |-> acc.all_issues \o r.issue_list,
          max_severity |-> IF r.severity = "high"
                              \/ (r.severity = "medium" /\ acc.max_severity = "low")
                           THEN r.severity ELSE acc.max_severity]
    ELSE acc

RECURSIVE Aggregate(_, _)
Aggregate(acc, rs) ==
    IF rs = <<>> THEN acc ELSE Aggregate(AggregateOne(acc, Head(rs)), Tail(rs))

AggregateResults(rs) ==
    LET agg == Aggregate([issues |-> 0, all_issues |-> <<>>, max_severity |-> "low"], rs)
    IN [success |-> TRUE,
        overall_severity |-> agg.max_severity,
        total_issues |-> Len(agg.all_issues),
        issues |-> agg.all_issues,
        detailed_results |-> rs,
        needs_fixing |-> agg.issues > 0]

\* ContentAfterValidation with the combined document stored back into
\* main_content, where the HTML analyzer then finds a nested document.
ContentAfterValidation_StoresFullHtml(c) == [c EXCEPT !.html = 1]

\* validate_generated_content, lines 368-373: the five fields are read with
\* .get into locals; the mapping that was passed is left as it is.
ContentAfterValidation(c) == c

\* ValidationOrchestrator.validate_generated_content, for a content mapping.
validate_generated_content(c) ==
    AggregateResults(<<HtmlValidate(c), JsValidate(c), DepValidate(c)>>)

NoValidation == [success |-> FALSE, overall_severity |-> None, total_issues |-> 0,
                 issues |-> <<>>,
                 detailed_results |-> <<>>, needs_fixing |-> FALSE]

\* =====================================================================
\* agents/validation_agent.py
\* =====================================================================

\* What one chat.completions.create of _generate_fixes leads to:
\*   "unusable": the call raises, the text is not JSON, or it is JSON that
\*               is not a mapping (the field loop raises): None is returned;
\*   "str_all":  JSON string naming every required field: returned as is;
\*   "dict":     a mapping; its keys and issue counts range over contents.
FixAnswers(contents) ==
    {[kind |-> "unusable", content |-> StrContent],
     [kind |-> "str_all", content |-> StrContent]}
    \cup [kind : {"dict"}, content : contents]

\* Lines 175-179: every required field the answer left out is taken from the
\* content that was sent.
FillFromPrior(answered, prior) ==
    [answered EXCEPT !.fields = answered.fields \cup RequiredFields]

\* ValidationAgent._generate_fixes
_generate_fixes(html, has_client, ans) ==
    IF ~has_client \/ ans.kind = "unusable" THEN NoneContent
    ELSE IF ans.kind = "str_all" THEN StrContent
    ELSE FillFromPrior(ans.content, html)

\* MadeProgress with the comparison weakened to "not more issues".
MadeProgress_NotWorse(quick, vr) == quick.total_issues <= vr.total_issues

\* _attempt_fixes, line 93: the fix is accepted when it has fewer issues than
\* the validation result it is compared with.
MadeProgress(quick, vr) == quick.total_issues < vr.total_issues

\* ValidationAgent._attempt_fixes: the for loop from iteration `attempt` on.
\* Returns the accepted content (or None) and the attempts made.
RECURSIVE _attempt_fixes(_, _, _, _, _)
_attempt_fixes(html, vr, has_client, answers, attempt) ==
    IF attempt > max_fix_attempts
    THEN [fixed |-> NoneContent, attempts |-> attempt - 1]
    ELSE
      LET fixed == _generate_fixes(html, has_client, answers[attempt])
      IN IF fixed = NoneContent
         THEN _attempt_fixes(html, vr, has_client, answers, attempt + 1)
         ELSE IF fixed.shape # "dict"
         THEN \* validate_generated_content raises; caught, next attempt
              _attempt_fixes(html, vr, has_client, answers, attempt + 1)
         ELSE LET quick == validate_generated_content(fixed)
              IN IF MadeProgress(quick, vr)
                 THEN [fixed |-> fixed, attempts |-> attempt]
                 ELSE _attempt_fixes(fixed, quick, has_client, answers, attempt + 1)

\* ValidationAgent.validate_and_fix, for a content mapping
validate_and_fix(html, has_client, answers) ==
    LET vr == validate_generated_content(html)
        unfixed(n) == [success |-> TRUE, content_fixed |-> FALSE, html_content |-> html,
                       original_validation |-> vr, final_validation |-> vr,
                       fix_attempts |-> n]
    IN IF ~vr.needs_fixing THEN unfixed(0)
       ELSE IF ~has_client THEN unfixed(0)
       ELSE LET r == _attempt_fixes(html, vr, has_client, answers, 1)
            IN IF r.fixed # NoneContent
               THEN [success |-> TRUE, content_fixed |-> TRUE, html_content |-> r.fixed,
                     original_validation |-> vr,
                     final_validation |-> validate_generated_content(r.fixed),
                     fix_attempts |-> r.attempts]
               ELSE unfixed(r.attempts)

FixAnswerSeqs(contents) == [1..max_fix_attempts -> FixAnswers(contents)]

\* ContentAfterFix with the accepted fix written into the mapping that was
\* passed.
ContentAfterFix_InPlace(html, out) ==
    IF out.content_fixed THEN out.html_content ELSE html

\* The mapping the caller passed, as validate_and_fix leaves it: the
\* validations only read it, lines 175-178 of _generate_fixes assign to the
\* parsed answer, and line 98 of _attempt_fixes rebinds a local name.
ContentAfterFix(html, out) == ContentAfterValidation(html)

\* =====================================================================
\* agents/react_agent.py
\* =====================================================================

\* ReactAgent.__init__, lines 40-48: the context of a new agent.
FreshContext ==
    [planning_completed |-> FALSE,
     implementation_plan |-> "absent",
     tool_results |-> <<>>,
     reasoning_steps |-> <<>>,
     ready_to_generate |-> FALSE]

\* A decision: the "action", "parameters", "reasoning" and "continue" keys of
\* the mapping _reason_about_next_step returns ("absent": no such key).
NoDecision == [action |-> "", parameters |-> "dict", reasoning |-> "", continue |-> "absent"]

NoResult ==
    [returned |-> FALSE, keys |-> {}, success |-> FALSE, error |-> "",
     html_content |-> NoneContent, iterations_completed |-> 0,
     llm_calls_made |-> 0, intelligence_used |-> 0]

NoUrlValidation == [success |-> FALSE, has_invalid_urls |-> FALSE]

IdleVA == [pc |-> "idle", has_client |-> FALSE, input |-> NoneContent,
           answers |-> [i \in 1..max_fix_attempts |-> [kind |-> "unusable", content |-> StrContent]],
           out |-> [success |-> FALSE, content_fixed |-> FALSE, html_content |-> NoneContent,
                    original_validation |-> NoValidation, final_validation |-> NoValidation,
                    fix_attempts |-> 0]]

\* ValidationAgent.validate_only
validate_only(c) ==
    LET validation_result == validate_generated_content(c)
    IN [success |-> TRUE, validation_result |-> validation_result,
        needs_fixing |-> validation_result.needs_fixing]

\* input: the content handed in; content: the mapping as the calls left it;
\* out: the result of the validation; again: the result of validating again.
IdleOrch == [pc |-> "idle", input |-> NoneContent, content |-> NoneContent,
             out |-> NoValidation,
             again |-> [success |-> FALSE, validation_result |-> NoValidation,
                        needs_fixing |-> FALSE]]

\* No JavaScriptValidator call, no ValidateHTMLEndpointsTool call.
IdleJs == [pc |-> "idle", js |-> <<>>, issues |-> <<>>]
IdleExtractor == [pc |-> "idle", content |-> <<>>, urls |-> <<>>,
                  out |-> [success |-> FALSE, urls_found |-> 0,
                           valid_urls |-> <<>>, invalid_urls |-> <<>>]]

\* No tag-balance scan is going on.
IdleHtml == [pc |-> "idle", tags |-> <<>>, out |-> <<>>]

\* No generation response is being parsed.
IdleEscaping == [pc |-> "idle", content |-> <<>>, repair_tried |-> FALSE,
                 html_content |-> <<>>, raised |-> ""]

\* Agents that run at the same time (one per request of generate_page) and
\* the session ids they may have.
AgentIds == {1, 2}

\* The seconds, as int(time.time()) gives them, at which agents are
\* constructed.
Seconds == {1, 2}

\* ReactAgent.__init__, line 28, for an agent constructed without session_id:
\* the id is made of the second of the construction.
DefaultSessionId(now) == "agent_" \o ToString(now)

SessionIds == {DefaultSessionId(now) : now \in Seconds}

\* No AgentSession row with this session_id.
NoRow == [exists |-> FALSE, context |-> FreshContext, task_status |-> "none"]

\* The fields of a ReactAgent that is about to be constructed on this id;
\* task_status is that of its self.session object.
NewAgent(sid, has_client, maxIters, maxCalls) ==
    [session_id |-> sid, pc |-> "new", client |-> has_client,
     max_iterations |-> maxIters, max_llm_calls |-> maxCalls,
     iterations_completed |-> 0, llm_calls_made |-> 0,
     context |-> FreshContext, task_status |-> "none",
     action |-> NoDecision, result |-> NoResult]

\* agents: the agents; rows: the AgentSession table by session_id; alone:
\* for each agent, the same agent taking the same steps with the same
\* answers with no other agent present, and its row.
IdleFleet ==
    LET idle == [NewAgent("agent_1", FALSE, 0, 0) EXCEPT !.pc = "idle"]
    IN [agents |-> [i \in AgentIds |-> idle],
        rows |-> [s \in SessionIds |-> NoRow],
        alone |-> [i \in AgentIds |-> [agent |-> idle, row |-> NoRow]]]

\* ReactAgent._save_session
SavedSession(status, ctx) == [exists |-> TRUE, context |-> ctx, task_status |-> status]

\* ReactAgent._get_or_create_session, lines 53-68 (the context after it)
LoadedContext(fresh, row) == IF row.exists THEN row.context ELSE fresh

SuccessKeys == {"success", "html_content", "intelligence_used", "iterations_completed",
                "llm_calls_made", "html_validation", "url_validation", "context"}
ErrorKeys == {"success", "error"}
ErrorContextKeys == {"success", "error", "context"}

PlanningErrors == {"Planning failed: OpenAI client not available or LLM calls exhausted",
                   "Planning failed: Failed to parse planning JSON",
                   "Planning failed: <exception of the model call>"}

ErrorResult(keys, error) ==
    [returned |-> TRUE, keys |-> keys, success |-> FALSE, error |-> error,
     html_content |-> NoneContent, iterations_completed |-> 0,
     llm_calls_made |-> 0, intelligence_used |-> 0]

\* Fatal with the status of the normal path.
Fatal_Completed(error) ==
    /\ session' = SavedSession("completed", context')
    /\ result' = ErrorResult(ErrorContextKeys, error)
    /\ pc' = "returned"

\* execute, lines 250-259: the handler of an exception no inner handler caught
Fatal(error) ==
    /\ session' = SavedSession("failed", context')
    /\ result' = ErrorResult(ErrorContextKeys, error)
    /\ pc' = "returned"

\* The state after construction of the first agent.
Init ==
    /\ pc = "constructed"
    /\ executions = 1
    /\ client \in BOOLEAN
    /\ max_iterations \in 0..MaxIterationsSetting
    /\ max_llm_calls \in 0..MaxLLMCallsSetting
    /\ iterations_completed = 0
    /\ llm_calls_made = 0
    /\ context = FreshContext
    /\ session = [exists |-> TRUE, context |-> FreshContext, task_status |-> "initialized"]
    /\ action = NoDecision
    /\ html_content = NoneContent
    /\ html_validation = IdleVA.out
    /\ url_validation = NoUrlValidation
    /\ model_calls = 0
    /\ result = NoResult
    /\ phases = <<>>
    /\ va = IdleVA
    /\ orch = IdleOrch
    /\ fleet = IdleFleet
    /\ jsv = IdleJs
    /\ extractor = IdleExtractor
    /\ htmlv = IdleHtml
    /\ escaping = IdleEscaping

\* ReactAgent.__init__ of a further agent on the session id of the previous
\* one (the id is agent_<unix second>, or is passed in), after the previous
\* execution has returned: lines 27-51 with _get_or_create_session finding
\* the stored row.  An agent on a new id starts as in Init.
Construct ==
    /\ pc = "returned"
    /\ executions < MaxExecutions
    /\ max_iterations <= MaxResumedIterations
    /\ Len(session.context.reasoning_steps) <= MaxResumedSteps
    /\ context' = LoadedContext(FreshContext, session)
    /\ executions' = executions + 1
    /\ iterations_completed' = 0
    /\ llm_calls_made' = 0
    /\ model_calls' = 0
    /\ action' = NoDecision
    /\ html_content' = NoneContent
    /\ html_validation' = IdleVA.out
    /\ url_validation' = NoUrlValidation
    /\ result' = NoResult
    /\ phases' = <<>>
    /\ pc' = "constructed"
    /\ UNCHANGED <<client, max_iterations, max_llm_calls, session, va, orch, fleet,
                   jsv, extractor, htmlv, escaping>>

\* execute, lines 192-197
ExecuteStart ==
    /\ pc = "constructed"
    /\ session' = SavedSession("executing", context)
    /\ pc' = "planning"
    /\ UNCHANGED <<executions, client, max_iterations, max_llm_calls, iterations_completed,
                   llm_calls_made, context, action, html_content, html_validation,
                   url_validation, model_calls, result, phases, va, orch, fleet,
          jsv, extractor, htmlv, escaping>>

\* The entry a call adds to the record of calls: n = 1 when it was made.
CallsOf(name, n) == IF n = 1 THEN <<name>> ELSE <<>>

\* What the planning model call leads to: the call raises, the text is not
\* JSON, or it is a plan: one as the prompt asks for, one without "summary",
\* or one whose data_requirements or research_tasks hold items that are not
\* strings.
PlanAnswers == {"raise", "unparseable", "plan", "plan_no_summary", "plan_items_not_strings"}

\* _create_implementation_plan with an unparseable answer taken as an empty plan.
_create_implementation_plan_EmptyPlan(has_client, calls, maxCalls, ans) ==
    IF ~has_client \/ calls >= maxCalls
    THEN [success |-> FALSE, called |-> FALSE, plan |-> "absent",
          error |-> "Planning failed: OpenAI client not available or LLM calls exhausted"]
    ELSE IF ans = "raise"
    THEN [success |-> FALSE, called |-> TRUE, plan |-> "absent",
          error |-> "Planning failed: <exception of the model call>"]
    ELSE IF ans = "unparseable"
    THEN [success |-> TRUE, called |-> TRUE, plan |-> "absent", error |-> ""]
    ELSE [success |-> TRUE, called |-> TRUE, plan |-> ans, error |-> ""]

\* _create_implementation_plan without the test of the call budget.
_create_implementation_plan_NoBudgetTest(has_client, calls, maxCalls, ans) ==
    IF ~has_client
    THEN [success |-> FALSE, called |-> FALSE, plan |-> "absent",
          error |-> "Planning failed: OpenAI client not available or LLM calls exhausted"]
    ELSE IF ans = "raise"
    THEN [success |-> FALSE, called |-> TRUE, plan |-> "absent",
          error |-> "Planning failed: <exception of the model call>"]
    ELSE IF ans = "unparseable"
    THEN [success |-> FALSE, called |-> TRUE, plan |-> "absent",
          error |-> "Planning failed: Failed to parse planning JSON"]
    ELSE [success |-> TRUE, called |-> TRUE, plan |-> ans, error |-> ""]

\* ReactAgent._create_implementation_plan
_create_implementation_plan(has_client, calls, maxCalls, ans) ==
    IF ~has_client \/ calls >= maxCalls
    THEN [success |-> FALSE, called |-> FALSE, plan |-> "absent",
          error |-> "Planning failed: OpenAI client not available or LLM calls exhausted"]
    ELSE IF ans = "raise"
    THEN [success |-> FALSE, called |-> TRUE, plan |-> "absent",
          error |-> "Planning failed: <exception of the model call>"]
    ELSE IF ans = "unparseable"
    THEN [success |-> FALSE, called |-> TRUE, plan |-> "absent",
          error |-> "Planning failed: Failed to parse planning JSON"]
    ELSE [success |-> TRUE, called |-> TRUE, plan |-> ans, error |-> ""]

\* execute, lines 200-211
Planning ==
    /\ pc = "planning"
    /\ IF context.planning_completed
       THEN /\ pc' = "loop"
            /\ UNCHANGED <<llm_calls_made, model_calls, context, session, result, phases>>
       ELSE \E ans \in PlanAnswers :
              LET r == _create_implementation_plan(client, llm_calls_made, max_llm_calls, ans)
                  n == IF r.called THEN 1 ELSE 0
              IN /\ llm_calls_made' = llm_calls_made + n
                 /\ model_calls' = model_calls + n
                 /\ phases' = phases \o CallsOf("planning", n)
                 /\ IF ~r.success
                    THEN /\ result' = ErrorResult(ErrorKeys, r.error)
                         /\ pc' = "returned"
                         /\ UNCHANGED <<context, session>>
                    ELSE IF r.plan = "plan_no_summary"
                    THEN \* planning_result['plan']['summary'] raises on line 206
                         /\ context' = [context EXCEPT !.implementation_plan = r.plan,
                                                       !.planning_completed = TRUE]
                         /\ Fatal("'summary'")
                    ELSE /\ context' = [context EXCEPT !.implementation_plan = r.plan,
                                                       !.planning_completed = TRUE]
                         /\ pc' = "loop"
                         /\ UNCHANGED <<session, result>>
    /\ UNCHANGED <<executions, client, max_iterations, max_llm_calls, iterations_completed,
                   action, html_content, html_validation, url_validation, va, orch, fleet,
                   jsv, extractor, htmlv, escaping>>

\* LoopCondition without the test of the iteration budget.
LoopCondition_NoIterationTest(iters, maxIters, calls, maxCalls, ready) ==
    /\ calls < maxCalls
    /\ ~ready

\* LoopCondition without the test of ready_to_generate.
LoopCondition_NoReadyTest(iters, maxIters, calls, maxCalls, ready) ==
    /\ iters < maxIters
    /\ calls < maxCalls

\* LoopCondition without the tests of the two budgets.
LoopCondition_NoBudgetTests(iters, maxIters, calls, maxCalls, ready) ==
    ~ready

\* LoopCondition without the test of the call budget.
LoopCondition_NoCallTest(iters, maxIters, calls, maxCalls, ready) ==
    /\ iters < maxIters
    /\ ~ready

\* execute, lines 214-216: the condition of the while loop
LoopCondition(iters, maxIters, calls, maxCalls, ready) ==
    /\ iters < maxIters
    /\ calls < maxCalls
    /\ ~ready

\* execute, lines 214-218: the loop test and the start of an iteration
LoopCheck ==
    /\ pc = "loop"
    /\ IF LoopCondition(iterations_completed, max_iterations, llm_calls_made,
                        max_llm_calls, context.ready_to_generate)
       THEN /\ iterations_completed' = iterations_completed + 1
            /\ pc' = "reason"
       ELSE /\ pc' = "generate"
            /\ UNCHANGED iterations_completed
    /\ UNCHANGED <<executions, client, max_iterations, max_llm_calls, llm_calls_made,
                   context, session, action, html_content, html_validation,
                   url_validation, model_calls, result, phases, va, orch, fleet,
          jsv, extractor, htmlv, escaping>>

\* What the reasoning model call leads to: the call raises, the text is not
\* JSON, it is JSON but not a mapping, or it is a mapping with these keys.
ParamKinds == {"dict", "str", "other"}
ReasonAnswers ==
    [kind : {"raise", "unparseable", "nondict"}, action : {""}, parameters : {"dict"}]
    \cup [kind : {"dict"}, action : {"generate_final_html", "no_action", ""},
          parameters : {"dict"}]
    \cup [kind : {"dict"}, action : ToolChoices \cap RegisteredTools, parameters : ParamKinds]
    \cup [kind : {"dict"}, action : ToolChoices \ RegisteredTools, parameters : {"dict"}]

\* lines 374-377
SuccessfulToolCalls(tool_results) ==
    Cardinality({i \in DOMAIN tool_results : tool_results[i].success})

StacCallsMade(tool_results) ==
    Cardinality({i \in DOMAIN tool_results :
                    /\ tool_results[i].action = "fetch_stac_sample_data"
                    /\ tool_results[i].success})

\* Guardrail with the catalog check made first.
Guardrail_CatalogFirst(decision, tool_results) ==
    IF decision.action = "generate_final_html"
    THEN IF StacCallsMade(tool_results) = 0
         THEN [action |-> "no_action", parameters |-> "dict",
               reasoning |-> "Must fetch sample data from configured STAC sources",
               continue |-> "true"]
         ELSE IF SuccessfulToolCalls(tool_results) < MinSuccessfulToolCalls
         THEN [action |-> "no_action", parameters |-> "dict",
               reasoning |-> "Insufficient research completed", continue |-> "true"]
         ELSE decision
    ELSE decision

\* lines 380-394: the guardrail on a parsed decision
Guardrail(decision, tool_results) ==
    IF decision.action = "generate_final_html"
    THEN IF SuccessfulToolCalls(tool_results) < MinSuccessfulToolCalls
         THEN [action |-> "no_action", parameters |-> "dict",
               reasoning |-> "Insufficient research completed", continue |-> "true"]
         ELSE IF StacCallsMade(tool_results) = 0
         THEN [action |-> "no_action", parameters |-> "dict",
               reasoning |-> "Must fetch sample data from configured STAC sources",
               continue |-> "true"]
         ELSE decision
    ELSE decision

\* line 266
GenerateDecision == [action |-> "generate_final_html", parameters |-> "dict",
                     reasoning |-> "LLM calls exhausted", continue |-> "absent"]

\* What str(e) is in the handler of lines 406-412: the exception of the
\* model call (a timeout, an API error), or the AttributeError of action.get
\* on a parsed answer that is no mapping.
ModelCallError == "Error in reasoning: <exception of the model call>"
NotAMappingError == "Error in reasoning: object has no attribute 'get'"
JSONParsingFailed == "JSON parsing failed"

\* lines 406-412: the decision returned by the handler of the reasoning step
ErrorDecision(error) == [action |-> "generate_final_html", parameters |-> "dict",
                         reasoning |-> error, continue |-> "false"]

\* ReactAgent._reason_about_next_step: the decision returned, whether the
\* model was called and whether a reasoning step was recorded.
_reason_about_next_step(has_client, calls, maxCalls, tool_results, ans) ==
    IF ~has_client \/ calls >= maxCalls
    THEN [decision |-> GenerateDecision, called |-> FALSE, recorded |-> FALSE]
    ELSE IF ans.kind = "raise"
    THEN [decision |-> ErrorDecision(ModelCallError), called |-> TRUE, recorded |-> FALSE]
    ELSE IF ans.kind = "unparseable"
    THEN [decision |-> [action |-> "no_action", parameters |-> "dict",
                        reasoning |-> JSONParsingFailed, continue |-> "true"],
          called |-> TRUE, recorded |-> FALSE]
    ELSE IF ans.kind = "nondict"
    THEN \* action.get raises on line 380, caught on line 406
         [decision |-> ErrorDecision(NotAMappingError), called |-> TRUE, recorded |-> FALSE]
    ELSE [decision |-> Guardrail([action |-> ans.action, parameters |-> ans.parameters,
                                  reasoning |-> "<given by the model>",
                                  continue |-> "<given by the model>"],
                                 tool_results),
          called |-> TRUE, recorded |-> TRUE]

\* _reason_about_next_step, lines 265-285: past the test of line 265 the
\* prompt is built, outside the try of line 340; '- ' + req raises on an
\* item of the plan that is not a string.
ReasoningPromptRaises(has_client, calls, maxCalls, ctx) ==
    /\ has_client
    /\ calls < maxCalls
    /\ ctx.implementation_plan = "plan_items_not_strings"

\* execute, lines 222-226 and the branch of lines 229/240 that runs no tool
\* (and the handler of lines 250-259 when the reasoning step raises)
Reason ==
    /\ pc = "reason"
    /\ IF ReasoningPromptRaises(client, llm_calls_made, max_llm_calls, context)
       THEN /\ context' = context
            /\ Fatal("can only concatenate str")
            /\ UNCHANGED <<llm_calls_made, model_calls, phases, action>>
       ELSE
       \E ans \in ReasonAnswers :
         LET r == _reason_about_next_step(client, llm_calls_made, max_llm_calls,
                                          context.tool_results, ans)
             n == IF r.called THEN 1 ELSE 0
             steps == IF r.recorded
                      THEN Append(context.reasoning_steps,
                                  [iteration |-> iterations_completed,
                                   action |-> r.decision.action])
                      ELSE context.reasoning_steps
         IN /\ llm_calls_made' = llm_calls_made + n
            /\ model_calls' = model_calls + n
            /\ phases' = phases \o CallsOf("reasoning", n)
            /\ action' = r.decision
            /\ UNCHANGED result
            /\ IF r.decision.action = "generate_final_html"
               THEN /\ context' = [context EXCEPT !.reasoning_steps = steps,
                                                  !.ready_to_generate = TRUE]
                    /\ pc' = "generate"
                    /\ UNCHANGED session
               ELSE IF r.decision.action \notin {"", "no_action"}
               THEN /\ context' = [context EXCEPT !.reasoning_steps = steps]
                    /\ pc' = "act"
                    /\ UNCHANGED session
               ELSE /\ context' = [context EXCEPT !.reasoning_steps = steps]
                    /\ session' = SavedSession(session.task_status, context')
                    /\ pc' = "loop"
    /\ UNCHANGED <<executions, client, max_iterations, max_llm_calls, iterations_completed,
                   html_content, html_validation, url_validation, va, orch, fleet,
                   jsv, extractor, htmlv, escaping>>

\* What tool.execute leads to: a result with success true, a result with
\* success false, or an exception.
ToolOutcomes == {"success", "failure", "raise"}

\* lines 429-434 and 451: what tool.execute(**parameters) is called with,
\* the mapping of the decision or the bare string wrapped as {query: ...}
PassedParameters(parameters) == IF parameters = "str" THEN "query" ELSE "dict"

\* _execute_tool with an exception of tool.execute left uncaught.
_execute_tool_Propagates(decision, outcome) ==
    IF decision.action = ListName
    THEN [raises |-> TRUE, success |-> FALSE, error |-> "unhashable type", executed_with |-> ""]
    ELSE IF decision.action \notin RegisteredTools
    THEN [raises |-> FALSE, success |-> FALSE, error |-> "Tool not found", executed_with |-> ""]
    ELSE IF decision.parameters # "dict"
            /\ ~(decision.parameters = "str" /\ decision.action = "web_search")
    THEN [raises |-> FALSE, success |-> FALSE, error |-> "Invalid parameters format",
          executed_with |-> ""]
    ELSE IF outcome = "success"
    THEN [raises |-> FALSE, success |-> TRUE, error |-> "",
          executed_with |-> PassedParameters(decision.parameters)]
    ELSE IF outcome = "raise"
    THEN [raises |-> TRUE, success |-> FALSE, error |-> "tool error",
          executed_with |-> PassedParameters(decision.parameters)]
    ELSE [raises |-> FALSE, success |-> FALSE, error |-> "tool error",
          executed_with |-> PassedParameters(decision.parameters)]

\* _execute_tool with a bare string wrapped for every tool.
_execute_tool_WrapsForAnyTool(decision, outcome) ==
    IF decision.action = ListName
    THEN [raises |-> TRUE, success |-> FALSE, error |-> "unhashable type", executed_with |-> ""]
    ELSE IF decision.action \notin RegisteredTools
    THEN [raises |-> FALSE, success |-> FALSE, error |-> "Tool not found", executed_with |-> ""]
    ELSE IF decision.parameters = "other"
    THEN [raises |-> FALSE, success |-> FALSE, error |-> "Invalid parameters format",
          executed_with |-> ""]
    ELSE IF outcome = "success"
    THEN [raises |-> FALSE, success |-> TRUE, error |-> "",
          executed_with |-> PassedParameters(decision.parameters)]
    ELSE [raises |-> FALSE, success |-> FALSE, error |-> "tool error",
          executed_with |-> PassedParameters(decision.parameters)]

\* ReactAgent._execute_tool (raises |-> TRUE: the exception leaves it;
\* executed_with: what tool.execute was called with, "" when it was not
\* called)
_execute_tool(decision, outcome) ==
    IF decision.action = ListName
    THEN \* tool_registry.get_tool: dict.get on an unhashable key
         [raises |-> TRUE, success |-> FALSE, error |-> "unhashable type", executed_with |-> ""]
    ELSE IF decision.action \notin RegisteredTools
    THEN [raises |-> FALSE, success |-> FALSE, error |-> "Tool not found", executed_with |-> ""]
    ELSE IF decision.parameters # "dict"
            /\ ~(decision.parameters = "str" /\ decision.action = "web_search")
    THEN [raises |-> FALSE, success |-> FALSE, error |-> "Invalid parameters format",
          executed_with |-> ""]
    ELSE IF outcome = "success"
    THEN [raises |-> FALSE, success |-> TRUE, error |-> "",
          executed_with |-> PassedParameters(decision.parameters)]
    ELSE [raises |-> FALSE, success |-> FALSE, error |-> "tool error",
          executed_with |-> PassedParameters(decision.parameters)]

\* Observe with the new record added twice.
Observe_Twice(tool_results, record) == Append(Append(tool_results, record), record)

\* Observe with the new record put in place of the earlier ones.
Observe_KeepLast(tool_results, record) == <<record>>

\* execute, lines 233-238: the observation is added to the context
Observe(tool_results, record) == Append(tool_results, record)

\* execute, lines 229-240
Act ==
    /\ pc = "act"
    /\ \E outcome \in ToolOutcomes :
         LET tool_result == _execute_tool(action, outcome)
         IN /\ phases' = Append(phases, "tool")
            /\ IF tool_result.raises
               THEN /\ context' = context
                    /\ Fatal(tool_result.error)
               ELSE /\ context' = [context EXCEPT !.tool_results =
                                      Observe(@, [iteration |-> iterations_completed,
                                                 action |-> action.action,
                                                 parameters |-> action.parameters,
                                                 success |-> tool_result.success,
                                                 error |-> tool_result.error,
                                                 executed_with |->
                                                     tool_result.executed_with])]
                    /\ session' = SavedSession(session.task_status, context')
                    /\ pc' = "loop"
                    /\ UNCHANGED result
    /\ UNCHANGED <<executions, client, max_iterations, max_llm_calls, iterations_completed,
                   llm_calls_made, action, html_content, html_validation, url_validation,
                   model_calls, va, orch, fleet,
                   jsv, extractor, htmlv, escaping>>

\* _build_intelligence_summary, lines 863-894: action_name.upper() raises on
\* a name that is not a string, and action.get("parameters", {}).get raises
\* for a successful web_search whose parameters were a bare string.
IntelligenceSummaryRaises(tool_results) ==
    \E i \in DOMAIN tool_results :
        \/ ~IsStringName(tool_results[i].action)
        \/ /\ tool_results[i].success
           /\ tool_results[i].action = "web_search"
           /\ tool_results[i].parameters # "dict"

\* What the generation model call leads to:
\*   "raise":            the call raises;
\*   "unparseable":      not JSON, and not an escaping error;
\*   "escape_unfixable": an "Invalid \escape" error; the repair pass is run
\*                       and its text does not parse either (it never does,
\*                       see ParseResponse);
\*   "nonmap":           JSON that is no mapping (the field loop raises);
\*   "str_all":          a JSON string in which every required name occurs;
\*   "dict":             a mapping.
GenAnswers ==
    [kind : {"raise", "unparseable", "escape_unfixable", "nonmap", "str_all"},
     content : {StrContent}]
    \cup [kind : {"dict"}, content : AgentContents]

\* lines 813-817: every required field the answer left out becomes ""
FillRequiredFields(c) ==
    IF c.shape = "dict" THEN [c EXCEPT !.fields = c.fields \cup RequiredFields] ELSE c

\* _generate_final_html, lines 771-817: the content, or the error caught on 851
ParseGeneration(ans) ==
    IF ans.kind = "raise"
    THEN [ok |-> FALSE, content |-> NoneContent, error |-> "<exception of the model call>"]
    ELSE IF ans.kind \in {"unparseable", "escape_unfixable"}
    THEN [ok |-> FALSE, content |-> NoneContent, error |-> "JSONDecodeError"]
    ELSE IF ans.kind = "nonmap"
    THEN [ok |-> FALSE, content |-> NoneContent, error |-> "TypeError"]
    ELSE [ok |-> TRUE, content |-> FillRequiredFields(ans.content), error |-> ""]

\* _validate_and_fix_html, lines 928-945
_validate_and_fix_html(html, has_client, answers) ==
    IF html.shape # "dict"
    THEN \* html_content.get raises inside validate_and_fix, caught on line 938
         [success |-> FALSE, content_fixed |-> FALSE, html_content |-> html,
          original_validation |-> NoValidation, final_validation |-> NoValidation,
          fix_attempts |-> 0]
    ELSE validate_and_fix(html, has_client, answers)

\* ValidateHTMLEndpointsTool.execute as _validate_generated_urls calls it: the
\* only argument is a mapping, so html_content + "\n" raises inside the tool's
\* try and the tool returns a failure.
ValidateHTMLEndpoints_execute(arg_is_mapping) ==
    IF arg_is_mapping THEN [success |-> FALSE, has_endpoints |-> FALSE]
                      ELSE [success |-> TRUE, has_endpoints |-> FALSE]

\* _validate_generated_urls, lines 947-1000
_validate_generated_urls(html) ==
    IF html.shape # "dict"
    THEN [success |-> FALSE, has_invalid_urls |-> FALSE]
    ELSE LET validation_result == ValidateHTMLEndpoints_execute(TRUE)
         IN [success |-> validation_result.success,
             has_invalid_urls |-> validation_result.success
                                  /\ validation_result.has_endpoints]

\* _fix_invalid_urls, lines 1002-1102: the replacing content, or None
_fix_invalid_urls(html, has_client, url_result, ans) ==
    IF ~has_client \/ ~url_result.has_invalid_urls THEN NoneContent
    ELSE IF ans.kind = "dict"
    THEN [ans.content EXCEPT !.fields = ans.content.fields \cup RequiredFields]
    ELSE IF ans.kind = "str_all" THEN StrContent
    ELSE NoneContent

\* _generate_final_html, lines 613-857, for a model answer `ans` to the
\* generation call, the answers `fixes` to the repair agent's calls and the
\* answer `urlfix` to the URL-fix call.  raises |-> TRUE: the exception of
\* _build_intelligence_summary (line 622, before the try) leaves the method.
_generate_final_html(has_client, ctx, iters, calls, maxCalls, ans, fixes, urlfix) ==
    LET failure(keys, error, n) ==
            [raises |-> FALSE, calls |-> calls + n, all_calls |-> n,
             html_content |-> NoneContent, html_validation |-> IdleVA.out,
             url_validation |-> NoUrlValidation,
             result |-> ErrorResult(keys, error)]
    IN
    IF ~has_client THEN failure(ErrorKeys, "OpenAI client not available", 0)
    ELSE IF IntelligenceSummaryRaises(ctx.tool_results)
    THEN [failure(ErrorContextKeys, "AttributeError", 0) EXCEPT !.raises = TRUE]
    ELSE
      LET g == ParseGeneration(ans)
      IN IF ~g.ok THEN failure(ErrorContextKeys, g.error, 1)
         ELSE
           LET validation_result == _validate_and_fix_html(g.content, has_client, fixes)
               repaired == IF validation_result.content_fixed
                           THEN validation_result.html_content ELSE g.content
               url_validation_result == _validate_generated_urls(repaired)
               fixing == url_validation_result.has_invalid_urls /\ calls + 1 < maxCalls
               fixed_html == IF fixing
                             THEN _fix_invalid_urls(repaired, has_client,
                                                    url_validation_result, urlfix)
                             ELSE NoneContent
               final == IF fixed_html # NoneContent THEN fixed_html ELSE repaired
               n == IF fixing THEN 2 ELSE 1
           IN [raises |-> FALSE, calls |-> calls + n,
               all_calls |-> n + validation_result.fix_attempts,
               html_content |-> final,
               html_validation |-> validation_result,
               url_validation |-> url_validation_result,
               result |-> [returned |-> TRUE, keys |-> SuccessKeys, success |-> TRUE,
                           error |-> "", html_content |-> final,
                           iterations_completed |-> iters,
                           llm_calls_made |-> calls + n,
                           intelligence_used |-> Len(ctx.tool_results)]]

\* _generate_final_html with the URLs validated before the repair.
GenerationPhases_UrlValidationFirst(calls, final_result) ==
    IF final_result.all_calls = 0 THEN <<>>
    ELSE IF ~final_result.result.success THEN <<"generation">>
    ELSE <<"generation", "url_validation", "repair">>
         \o CallsOf("url_fix", final_result.calls - calls - 1)

\* _generate_final_html with the generation call repeated after a failure.
GenerationPhases_Retry(calls, final_result) ==
    IF final_result.all_calls = 0 THEN <<>>
    ELSE IF ~final_result.result.success THEN <<"generation", "generation">>
    ELSE <<"generation", "repair", "url_validation">>
         \o CallsOf("url_fix", final_result.calls - calls - 1)

\* _generate_final_html, lines 771-838: the calls it made, in their order:
\* the generation call (line 772), then, when the answer was parsed,
\* _validate_and_fix_html (line 821), _validate_generated_urls (line 828)
\* and, when it ran, _fix_invalid_urls (line 832).
GenerationPhases(calls, final_result) ==
    IF final_result.all_calls = 0 THEN <<>>
    ELSE IF ~final_result.result.success THEN <<"generation">>
    ELSE <<"generation", "repair", "url_validation">>
         \o CallsOf("url_fix", final_result.calls - calls - 1)

\* The answers the environment is asked for: a model call that is not made
\* has no answer to choose.
NoAnswer == [kind |-> "raise", content |-> StrContent]
NoFixAnswers == [i \in 1..max_fix_attempts |-> [kind |-> "unusable", content |-> StrContent]]

GenerationAnswersFor(has_client, ctx) ==
    IF has_client /\ ~IntelligenceSummaryRaises(ctx.tool_results)
    THEN GenAnswers ELSE {NoAnswer}

RepairAnswersFor(has_client, ans) ==
    LET g == ParseGeneration(ans)
    IN IF /\ has_client
          /\ g.ok
          /\ g.content.shape = "dict"
          /\ validate_generated_content(g.content).needs_fixing
       THEN FixAnswerSeqs(AgentFixContents) ELSE {NoFixAnswers}

UrlFixAnswersFor(has_client, calls, maxCalls, ans, fixes) ==
    LET g == ParseGeneration(ans)
        validation_result == _validate_and_fix_html(g.content, has_client, fixes)
        repaired == IF validation_result.content_fixed
                    THEN validation_result.html_content ELSE g.content
    IN IF /\ has_client
          /\ g.ok
          /\ _validate_generated_urls(repaired).has_invalid_urls
          /\ calls + 1 < maxCalls
       THEN GenAnswers ELSE {NoAnswer}

\* execute, lines 242-248 (and the handler of lines 250-259 when the
\* intelligence summary raises)
GenerateFinalHtml ==
    /\ pc = "generate"
    /\ \E ans \in GenerationAnswersFor(client, context) :
       \E fixes \in RepairAnswersFor(client, ans) :
       \E urlfix \in UrlFixAnswersFor(client, llm_calls_made, max_llm_calls, ans, fixes) :
       \E final_result \in {_generate_final_html(client, context, iterations_completed,
                                                 llm_calls_made, max_llm_calls,
                                                 ans, fixes, urlfix)} :
            /\ llm_calls_made' = final_result.calls
            /\ model_calls' = model_calls + final_result.all_calls
            /\ phases' = phases \o GenerationPhases(llm_calls_made, final_result)
            /\ html_content' = final_result.html_content
            /\ html_validation' = final_result.html_validation
            /\ url_validation' = final_result.url_validation
            /\ context' = context
            /\ IF final_result.raises
               THEN Fatal(final_result.result.error)
               ELSE /\ result' = final_result.result
                    /\ session' = SavedSession("completed", context)
                    /\ pc' = "returned"
    /\ UNCHANGED <<executions, client, max_iterations, max_llm_calls, iterations_completed,
                   action, va, orch, fleet,
                   jsv, extractor, htmlv, escaping>>

Next ==
    \/ Construct
    \/ ExecuteStart
    \/ Planning
    \/ LoopCheck
    \/ Reason
    \/ Act
    \/ GenerateFinalHtml

Spec == Init /\ [][Next]_vars

\* =====================================================================
\* The repair agent and the orchestrator called on their own, as the
\* test_validation management command does.
\* =====================================================================

NoAgent ==
    /\ pc = "none"
    /\ executions = 0
    /\ client = FALSE
    /\ max_iterations = 0
    /\ max_llm_calls = 0
    /\ iterations_completed = 0
    /\ llm_calls_made = 0
    /\ context = FreshContext
    /\ session = [exists |-> FALSE, context |-> FreshContext, task_status |-> "none"]
    /\ action = NoDecision
    /\ html_content = NoneContent
    /\ html_validation = IdleVA.out
    /\ url_validation = NoUrlValidation
    /\ model_calls = 0
    /\ result = NoResult
    /\ phases = <<>>

\* A ValidationAgent is constructed and handed a content.
InitValidate ==
    /\ NoAgent
    /\ \E c \in FlowContents, k \in BOOLEAN :
         va = [IdleVA EXCEPT !.pc = "start", !.has_client = k, !.input = c]
    /\ orch = IdleOrch
    /\ fleet = IdleFleet
    /\ jsv = IdleJs
    /\ extractor = IdleExtractor
    /\ htmlv = IdleHtml
    /\ escaping = IdleEscaping

\* The answers of the calls validate_and_fix makes on this input.
FixAnswersFor(has_client, c) ==
    IF has_client /\ validate_generated_content(c).needs_fixing
    THEN FixAnswerSeqs(FlowContents) ELSE {NoFixAnswers}

\* test_validation.py, lines 131-132: ValidationAgent.validate_and_fix
ValidateAndFix ==
    /\ va.pc = "start"
    /\ \E answers \in FixAnswersFor(va.has_client, va.input) :
       \E out \in {validate_and_fix(va.input, va.has_client, answers)} :
         va' = [va EXCEPT !.pc = "done", !.answers = answers, !.out = out,
                          !.input = ContentAfterFix(va.input, out)]
    /\ UNCHANGED <<agentVars, orch, fleet, jsv, extractor, htmlv, escaping>>

\* The command is run again on another content.
ValidateAgain ==
    /\ va.pc = "done"
    /\ \E c \in FlowContents :
         va' = [IdleVA EXCEPT !.pc = "start", !.has_client = va.has_client, !.input = c]
    /\ UNCHANGED <<agentVars, orch, fleet, jsv, extractor, htmlv, escaping>>

NextValidate == ValidateAndFix \/ ValidateAgain

SpecValidate == InitValidate /\ [][NextValidate]_vars

\* A ValidationOrchestrator is handed a content.
InitOrchestrator ==
    /\ NoAgent
    /\ va = IdleVA
    /\ fleet = IdleFleet
    /\ jsv = IdleJs
    /\ extractor = IdleExtractor
    /\ htmlv = IdleHtml
    /\ escaping = IdleEscaping
    /\ \E c \in Contents :
         orch = [IdleOrch EXCEPT !.pc = "start", !.input = c, !.content = c]

\* test_validation.py, lines 65-66: validate_generated_content
OrchestratorValidate ==
    /\ orch.pc = "start"
    /\ orch' = [orch EXCEPT !.pc = "done",
                             !.out = validate_generated_content(orch.content),
                             !.content = ContentAfterValidation(orch.content)]
    /\ UNCHANGED <<agentVars, va, fleet, jsv, extractor, htmlv, escaping>>

\* The content that was validated is validated again, as validate_only does.
OrchestratorRevalidate ==
    /\ orch.pc = "done"
    /\ orch' = [orch EXCEPT !.pc = "revalidated",
                             !.again = validate_only(orch.content),
                             !.content = ContentAfterValidation(orch.content)]
    /\ UNCHANGED <<agentVars, va, fleet, jsv, extractor, htmlv, escaping>>

\* The command is run again on another content.
OrchestratorAgain ==
    /\ orch.pc \in {"done", "revalidated"}
    /\ \E c \in Contents :
         orch' = [IdleOrch EXCEPT !.pc = "start", !.input = c, !.content = c]
    /\ UNCHANGED <<agentVars, va, fleet, jsv, extractor, htmlv, escaping>>

NextOrchestrator == OrchestratorValidate \/ OrchestratorRevalidate \/ OrchestratorAgain

SpecOrchestrator == InitOrchestrator /\ [][NextOrchestrator]_vars

\* The scheduling of one execution: execute is a sequential method, every
\* step of it returns (model and tool calls have timeouts), so an execution
\* that can take a step takes it.
FairSpec == Spec /\ WF_vars(Next)

\* =====================================================================
\* Agents that run at the same time.  generate_page constructs one
\* ReactAgent per request; the settings (client, budgets) are those of the
\* process, the context and the counters are attributes of each agent, the
\* tools of tool_registry keep no state between calls, and the AgentSession
\* rows are shared through the database.  A step below is a step of the
\* single-agent machine above, on the fields of one agent and on one row.
\* =====================================================================

\* All agents share one row, whatever their session ids.
RowOf_OneRow(session_id) == "agent_1"

\* _get_or_create_session, lines 55-62: the row is looked up by session_id
RowOf(session_id) == session_id

\* ReactAgent.__init__, lines 27-51
ConstructStep(a, row) ==
    LET found == IF row.exists THEN row
                 ELSE [exists |-> TRUE, context |-> FreshContext,
                       task_status |-> "initialized"]
    IN [agent |-> [a EXCEPT !.pc = "constructed",
                            !.context = LoadedContext(FreshContext, row),
                            !.task_status = found.task_status],
        row |-> found]

\* execute, lines 192-197
ExecuteStartStep(a, row) ==
    [agent |-> [a EXCEPT !.pc = "planning", !.task_status = "executing"],
     row |-> SavedSession("executing", a.context)]

\* execute, lines 250-259
FatalStep(a, ctx, error) ==
    [agent |-> [a EXCEPT !.context = ctx, !.task_status = "failed",
                         !.result = ErrorResult(ErrorContextKeys, error),
                         !.pc = "returned"],
     row |-> SavedSession("failed", ctx)]

\* execute, lines 200-211
PlanningStep(a, row, ans) ==
    IF a.context.planning_completed
    THEN [agent |-> [a EXCEPT !.pc = "loop"], row |-> row]
    ELSE LET r == _create_implementation_plan(a.client, a.llm_calls_made,
                                              a.max_llm_calls, ans)
             called == [a EXCEPT !.llm_calls_made = @ + (IF r.called THEN 1 ELSE 0)]
             planned == [a.context EXCEPT !.implementation_plan = r.plan,
                                          !.planning_completed = TRUE]
         IN IF ~r.success
            THEN [agent |-> [called EXCEPT !.result = ErrorResult(ErrorKeys, r.error),
                                           !.pc = "returned"],
                  row |-> row]
            ELSE IF r.plan = "plan_no_summary"
            THEN FatalStep(called, planned, "'summary'")
            ELSE [agent |-> [called EXCEPT !.context = planned, !.pc = "loop"],
                  row |-> row]

\* execute, lines 214-218
LoopCheckStep(a, row) ==
    IF LoopCondition(a.iterations_completed, a.max_iterations, a.llm_calls_made,
                     a.max_llm_calls, a.context.ready_to_generate)
    THEN [agent |-> [a EXCEPT !.iterations_completed = @ + 1, !.pc = "reason"],
          row |-> row]
    ELSE [agent |-> [a EXCEPT !.pc = "generate"], row |-> row]

\* execute, lines 222-226 and the branch of lines 229/240 that runs no tool
ReasonStep(a, row, ans) ==
    IF ReasoningPromptRaises(a.client, a.llm_calls_made, a.max_llm_calls, a.context)
    THEN FatalStep(a, a.context, "can only concatenate str")
    ELSE
    LET r == _reason_about_next_step(a.client, a.llm_calls_made, a.max_llm_calls,
                                     a.context.tool_results, ans)
        steps == IF r.recorded
                 THEN Append(a.context.reasoning_steps,
                             [iteration |-> a.iterations_completed,
                              action |-> r.decision.action])
                 ELSE a.context.reasoning_steps
        decided == [a EXCEPT !.llm_calls_made = @ + (IF r.called THEN 1 ELSE 0),
                             !.action = r.decision,
                             !.context.reasoning_steps = steps]
    IN IF r.decision.action = "generate_final_html"
       THEN [agent |-> [decided EXCEPT !.context.ready_to_generate = TRUE,
                                       !.pc = "generate"],
             row |-> row]
       ELSE IF r.decision.action \notin {"", "no_action"}
       THEN [agent |-> [decided EXCEPT !.pc = "act"], row |-> row]
       ELSE [agent |-> [decided EXCEPT !.pc = "loop"],
             row |-> SavedSession(a.task_status, decided.context)]

\* execute, lines 229-240
ActStep(a, row, outcome) ==
    LET tool_result == _execute_tool(a.action, outcome)
        observed == [a.context EXCEPT !.tool_results =
                        Observe(@, [iteration |-> a.iterations_completed,
                                    action |-> a.action.action,
                                    parameters |-> a.action.parameters,
                                    success |-> tool_result.success,
                                    error |-> tool_result.error,
                                    executed_with |-> tool_result.executed_with])]
    IN IF tool_result.raises
       THEN FatalStep(a, a.context, tool_result.error)
       ELSE [agent |-> [a EXCEPT !.context = observed, !.pc = "loop"],
             row |-> SavedSession(a.task_status, observed)]

\* execute, lines 246-248 and 250-259: what execute does with the result of
\* _generate_final_html
GenerationReturns(a, final_result) ==
    LET called == [a EXCEPT !.llm_calls_made = final_result.calls]
    IN IF final_result.raises
       THEN FatalStep(called, a.context, final_result.result.error)
       ELSE [agent |-> [called EXCEPT !.result = final_result.result,
                                      !.task_status = "completed",
                                      !.pc = "returned"],
             row |-> SavedSession("completed", a.context)]

\* execute, lines 242-248
GenerateStep(a, row, ans) ==
    CHOOSE s \in {GenerationReturns(a, final_result) :
                     final_result \in {_generate_final_html(
                                          a.client, a.context, a.iterations_completed,
                                          a.llm_calls_made, a.max_llm_calls,
                                          ans, NoFixAnswers, NoAnswer)}} : TRUE

\* The answers explored for agents that run at the same time: a generated
\* content that needs no repair, and decisions with well-formed parameters.
FleetReasonAnswers ==
    {r \in ReasonAnswers :
        /\ r.kind # "nondict"
        /\ r.parameters = "dict"
        /\ r.action \in {"", "generate_final_html", "no_action", "fetch_stac_sample_data"}}

FleetGenAnswers ==
    {g \in GenAnswers : g.kind = "raise" \/ (g.kind = "dict" /\ g.content = CleanContent)}

\* The row of the session id of agent i.
OwnRow(i) == fleet.rows[RowOf(fleet.agents[i].session_id)]

\* The agent that runs alone takes the step that agent i takes.
Twin(i, stepped) ==
    IF fleet.alone[i].agent.pc = fleet.agents[i].pc THEN stepped ELSE fleet.alone[i]

\* Agent i has taken a step, to s, on its fields and on the row of its
\* session id, and the agent that runs alone has taken it to u.
Advance(i, s, u) ==
    [fleet EXCEPT !.agents[i] = s.agent,
                  !.rows[RowOf(fleet.agents[i].session_id)] = s.row,
                  !.alone[i] = u]

\* The requests arrive: the agents are about to be constructed without a
\* session_id (generate_page, views.py 34-36), the first in one second, the
\* second in the same second or in a later one.
InitFleet ==
    /\ NoAgent
    /\ va = IdleVA
    /\ orch = IdleOrch
    /\ jsv = IdleJs
    /\ extractor = IdleExtractor
    /\ htmlv = IdleHtml
    /\ escaping = IdleEscaping
    /\ \E k \in BOOLEAN, mi \in 0..MaxFleetIterations, mc \in 0..MaxFleetLLMCalls,
          now \in Seconds :
         LET new(i) == NewAgent(DefaultSessionId(IF i = 1 THEN 1 ELSE now), k, mi, mc)
         IN fleet = [agents |-> [i \in AgentIds |-> new(i)],
                     rows |-> [s \in SessionIds |-> NoRow],
                     alone |-> [i \in AgentIds |-> [agent |-> new(i), row |-> NoRow]]]

FleetConstruct ==
    /\ \E i \in AgentIds :
         /\ fleet.agents[i].pc = "new"
         /\ \E s \in {ConstructStep(fleet.agents[i], OwnRow(i))},
               u \in {Twin(i, ConstructStep(fleet.alone[i].agent, fleet.alone[i].row))} :
              fleet' = Advance(i, s, u)
    /\ UNCHANGED <<agentVars, va, orch, jsv, extractor, htmlv, escaping>>

FleetExecuteStart ==
    /\ \E i \in AgentIds :
         /\ fleet.agents[i].pc = "constructed"
         /\ \E s \in {ExecuteStartStep(fleet.agents[i], OwnRow(i))},
               u \in {Twin(i, ExecuteStartStep(fleet.alone[i].agent, fleet.alone[i].row))} :
              fleet' = Advance(i, s, u)
    /\ UNCHANGED <<agentVars, va, orch, jsv, extractor, htmlv, escaping>>

FleetPlanning ==
    /\ \E i \in AgentIds, ans \in PlanAnswers :
         /\ fleet.agents[i].pc = "planning"
         /\ \E s \in {PlanningStep(fleet.agents[i], OwnRow(i), ans)},
               u \in {Twin(i, PlanningStep(fleet.alone[i].agent, fleet.alone[i].row, ans))} :
              fleet' = Advance(i, s, u)
    /\ UNCHANGED <<agentVars, va, orch, jsv, extractor, htmlv, escaping>>

FleetLoopCheck ==
    /\ \E i \in AgentIds :
         /\ fleet.agents[i].pc = "loop"
         /\ \E s \in {LoopCheckStep(fleet.agents[i], OwnRow(i))},
               u \in {Twin(i, LoopCheckStep(fleet.alone[i].agent, fleet.alone[i].row))} :
              fleet' = Advance(i, s, u)
    /\ UNCHANGED <<agentVars, va, orch, jsv, extractor, htmlv, escaping>>

FleetReason ==
    /\ \E i \in AgentIds, ans \in FleetReasonAnswers :
         /\ fleet.agents[i].pc = "reason"
         /\ \E s \in {ReasonStep(fleet.agents[i], OwnRow(i), ans)},
               u \in {Twin(i, ReasonStep(fleet.alone[i].agent, fleet.alone[i].row, ans))} :
              fleet' = Advance(i, s, u)
    /\ UNCHANGED <<agentVars, va, orch, jsv, extractor, htmlv, escaping>>

FleetAct ==
    /\ \E i \in AgentIds, outcome \in ToolOutcomes :
         /\ fleet.agents[i].pc = "act"
         /\ \E s \in {ActStep(fleet.agents[i], OwnRow(i), outcome)},
               u \in {Twin(i, ActStep(fleet.alone[i].agent, fleet.alone[i].row, outcome))} :
              fleet' = Advance(i, s, u)
    /\ UNCHANGED <<agentVars, va, orch, jsv, extractor, htmlv, escaping>>

FleetGenerate ==
    /\ \E i \in AgentIds, ans \in FleetGenAnswers :
         /\ fleet.agents[i].pc = "generate"
         /\ \E s \in {GenerateStep(fleet.agents[i], OwnRow(i), ans)},
               u \in {Twin(i, GenerateStep(fleet.alone[i].agent, fleet.alone[i].row, ans))} :
              fleet' = Advance(i, s, u)
    /\ UNCHANGED <<agentVars, va, orch, jsv, extractor, htmlv, escaping>>

NextFleet ==
    \/ FleetConstruct
    \/ FleetExecuteStart
    \/ FleetPlanning
    \/ FleetLoopCheck
    \/ FleetReason
    \/ FleetAct
    \/ FleetGenerate

SpecFleet == InitFleet /\ [][NextFleet]_vars

\* =====================================================================
\* JavaScriptValidator called on a text.  A text is a sequence of
\* characters; the texts explored are made of braces, parentheses, brackets
\* and a letter, on one line, so that the semicolon, library and common-error
\* checks of the analyzer find nothing in them.
\* =====================================================================

JsAlphabet == {"{", "}", "(", "]", "a"}

JsTexts == UNION {[1..n -> JsAlphabet] : n \in 0..MaxJsLen}

\* str.count of one character
Count(text, ch) == Cardinality({i \in DOMAIN text : text[i] = ch})

Abs(n) == IF n < 0 THEN -n ELSE n

\* lines 156-161: the f-string of an unmatched pair
Unmatched(what, difference) ==
    [kind |-> what,
     text |-> "Unmatched " \o what \o ": " \o ToString(Abs(difference)) \o " "
              \o (IF difference > 0 THEN "opening" ELSE "closing") \o " " \o what]

\* _check_basic_syntax with the surplus of a pair counted from its opening
\* character alone.
Surplus_OpeningOnly(js, open, close) == Count(js, open)

\* _check_basic_syntax, lines 152-154
Surplus(js, open, close) == Count(js, open) - Count(js, close)

\* JavaScriptValidator._check_basic_syntax, lines 147-161
_check_basic_syntax(js) ==
    LET braces == Surplus(js, "{", "}")
        brackets == Surplus(js, "[", "]")
        parens == Surplus(js, "(", ")")
    IN (IF braces # 0 THEN <<Unmatched("braces", braces)>> ELSE <<>>)
       \o (IF brackets # 0 THEN <<Unmatched("brackets", brackets)>> ELSE <<>>)
       \o (IF parens # 0 THEN <<Unmatched("parentheses", parens)>> ELSE <<>>)

InitJs ==
    /\ NoAgent
    /\ va = IdleVA
    /\ orch = IdleOrch
    /\ fleet = IdleFleet
    /\ extractor = IdleExtractor
    /\ htmlv = IdleHtml
    /\ escaping = IdleEscaping
    /\ jsv = IdleJs

\* The analyzer is handed a text.
JsValidatorCall ==
    /\ jsv.pc = "idle"
    /\ \E js \in JsTexts : jsv' = [IdleJs EXCEPT !.pc = "start", !.js = js]
    /\ UNCHANGED <<agentVars, va, orch, fleet, extractor, htmlv, escaping>>

\* JavaScriptValidator.validate, lines 112-136
JsValidatorValidate ==
    /\ jsv.pc = "start"
    /\ jsv' = [jsv EXCEPT !.pc = "done", !.issues = _check_basic_syntax(jsv.js)]
    /\ UNCHANGED <<agentVars, va, orch, fleet, extractor, htmlv, escaping>>

\* The caller has read the result.
JsValidatorReturn ==
    /\ jsv.pc = "done"
    /\ jsv' = IdleJs
    /\ UNCHANGED <<agentVars, va, orch, fleet, extractor, htmlv, escaping>>

NextJs == JsValidatorCall \/ JsValidatorValidate \/ JsValidatorReturn

SpecJs == InitJs /\ [][NextJs]_vars

\* =====================================================================
\* ValidateHTMLEndpointsTool called on a text (agents/tools.py).  A text is
\* a sequence of statements, one per line; a statement is one of
\*     fetch('<c>')     axios.get('<c>')     const u = '<c>'     '<c>'
\* and <c>, the quoted string, is given by how it starts, the words it
\* contains and whether blanks surround it.  The strings are in lower case
\* and at least 4 characters long.
\* =====================================================================

UrlPrefixes == {"https://", "/", ""}
UrlWords == {{"json"}, {"api"}, {"stac", "search"}}

Candidates ==
    {c \in [prefix : UrlPrefixes, words : UrlWords, pad : BOOLEAN] :
        c.pad => (c.prefix = "/" /\ c.words = {"api"})}

Forms == {"fetch", "axios.get", "const", "string"}

Statements == [form : Forms, url : Candidates]

EndpointTexts == UNION {[1..n -> Statements] : n \in 0..MaxStatements}

\* lines 421-441: the patterns that can match these statements, in the
\* order of the list (the fetch patterns, then axios, then the assignment,
\* then the STAC pattern)
Patterns == <<"fetch", "axios.get", "const", "stac_search">>

\* re.finditer of one pattern on one statement: whether it matches (the
\* group is the quoted string)
Matches(pattern, statement) ==
    CASE pattern = "fetch" -> statement.form = "fetch"
      [] pattern = "axios.get" -> statement.form = "axios.get"
      [] pattern = "const" -> /\ statement.form = "const"
                              /\ statement.url.words \cap {"api", "search", "endpoint"} # {}
      [] pattern = "stac_search" -> {"stac", "search"} \subseteq statement.url.words

\* str.strip
strip(c) == [c EXCEPT !.pad = FALSE]

api_indicators == {"api", "search", "endpoint", "data", "service", "stac"}

\* ValidateHTMLEndpointsTool._is_likely_url, lines 472-483
_is_likely_url(text) ==
    /\ ~text.pad
    /\ text.prefix \in {"http://", "https://", "/"}
    /\ text.words \cap api_indicators # {}

\* The matches in the order the two loops of lines 443-445 visit them: every
\* pattern in turn, and for each the statements from the first to the last.
AllMatches(content) ==
    LET L == Len(content)
        pairs == [k \in 1..(Len(Patterns) * L) |->
                     [pattern |-> ((k - 1) \div L) + 1, line_number |-> ((k - 1) % L) + 1]]
    IN SelectSeq(pairs, LAMBDA m : Matches(Patterns[m.pattern], content[m.line_number]))

\* lines 446-459: the entries appended to urls
Extracted(content) ==
    LET likely == SelectSeq(AllMatches(content),
                            LAMBDA m : _is_likely_url(strip(content[m.line_number].url)))
    IN [k \in 1..Len(likely) |->
           [url |-> strip(content[likely[k].line_number].url),
            pattern |-> Patterns[likely[k].pattern],
            line_number |-> likely[k].line_number]]

\* Deduplicate with every entry kept.
Deduplicate_KeepAll(urls) == urls

\* lines 461-470: an entry is kept when no earlier entry has its url
Deduplicate(urls) ==
    LET kept == SelectSeq([k \in 1..Len(urls) |-> k],
                          LAMBDA k : \A j \in 1..(k - 1) : urls[j].url # urls[k].url)
    IN [n \in 1..Len(kept) |-> urls[kept[n]]]

\* ValidateHTMLEndpointsTool._extract_urls_from_content
_extract_urls_from_content(content) == Deduplicate(Extracted(content))

\* _validate_single_url, lines 485-539: a relative URL is not accessible;
\* for another one the HEAD request decides (accessible: the URLs it finds
\* accessible)
_validate_single_url(url, accessible) ==
    IF url.prefix = "/" THEN FALSE ELSE url \in accessible

\* ValidateHTMLEndpointsTool.execute, lines 370-414, js_content left at ""
ValidateHTMLEndpointsTool_execute(content, accessible) ==
    LET urls == _extract_urls_from_content(content)
    IN [success |-> TRUE,
        urls_found |-> Len(urls),
        valid_urls |-> SelectSeq(urls, LAMBDA u : _validate_single_url(u.url, accessible)),
        invalid_urls |-> SelectSeq(urls, LAMBDA u : ~_validate_single_url(u.url, accessible))]

\* The URLs of a text that a HEAD request is made for.
RequestedUrls(content) ==
    LET urls == _extract_urls_from_content(content)
    IN {urls[k].url : k \in {k \in DOMAIN urls : urls[k].url.prefix # "/"}}

InitExtractor ==
    /\ NoAgent
    /\ va = IdleVA
    /\ orch = IdleOrch
    /\ fleet = IdleFleet
    /\ jsv = IdleJs
    /\ extractor = IdleExtractor
    /\ htmlv = IdleHtml
    /\ escaping = IdleEscaping

\* The tool is handed a text.
ExtractorCall ==
    /\ extractor.pc = "idle"
    /\ \E content \in EndpointTexts :
         extractor' = [IdleExtractor EXCEPT !.pc = "start", !.content = content]
    /\ UNCHANGED <<agentVars, va, orch, fleet, jsv, htmlv, escaping>>

\* The tool is executed on the text.
ExtractorExecute ==
    /\ extractor.pc = "start"
    /\ \E accessible \in SUBSET RequestedUrls(extractor.content) :
         extractor' = [extractor EXCEPT
                          !.pc = "done",
                          !.urls = _extract_urls_from_content(extractor.content),
                          !.out = ValidateHTMLEndpointsTool_execute(extractor.content,
                                                                    accessible)]
    /\ UNCHANGED <<agentVars, va, orch, fleet, jsv, htmlv, escaping>>

\* The caller has read the result.
ExtractorReturn ==
    /\ extractor.pc = "done"
    /\ extractor' = IdleExtractor
    /\ UNCHANGED <<agentVars, va, orch, fleet, jsv, htmlv, escaping>>

NextExtractor == ExtractorCall \/ ExtractorExecute \/ ExtractorReturn

SpecExtractor == InitExtractor /\ [][NextExtractor]_vars

\* =====================================================================
\* agents/validation_tools.py: HTMLStructureValidator._find_unclosed_tags.
\* re.findall of line 82 gives one pair (is_closing, tag_name) per tag of
\* the text; a text is given here by the sequence of its tags.
\* =====================================================================

TagNames == {"div", "DIV", "p", "br"}

Tags == [is_closing : BOOLEAN, tag_name : TagNames]

TagTexts == UNION {[1..n -> Tags] : n \in 0..MaxTags}

\* str.lower, line 88, on the names explored
lower(tag_name) == IF tag_name = "DIV" THEN "div" ELSE tag_name

\* line 91
VoidElements == {"img", "br", "hr", "meta", "link", "input"}

\* Lines 87-102: the loop from tag k on; stack and unclosed are the two
\* lists of lines 84-85.
RECURSIVE ScanTags(_, _, _, _)
ScanTags(tags, k, stack, unclosed) ==
    IF k > Len(tags) THEN [stack |-> stack, unclosed |-> unclosed]
    ELSE LET tag_name == lower(tags[k].tag_name)
         IN IF tag_name \in VoidElements
            THEN ScanTags(tags, k + 1, stack, unclosed)
            ELSE IF tags[k].is_closing
            THEN IF stack # <<>> /\ stack[Len(stack)] = tag_name
                 THEN ScanTags(tags, k + 1, SubSeq(stack, 1, Len(stack) - 1), unclosed)
                 ELSE IF \E i \in DOMAIN unclosed : unclosed[i] = tag_name
                 THEN ScanTags(tags, k + 1, stack, unclosed)
                 ELSE ScanTags(tags, k + 1, stack, Append(unclosed, tag_name))
            ELSE ScanTags(tags, k + 1, Append(stack, tag_name), unclosed)

\* The lists in which every element of a set of names occurs once.
Orderings(names) ==
    {f \in [1..Cardinality(names) -> names] : \A i, j \in DOMAIN f : f[i] = f[j] => i = j}

\* Reports with the list returned as it was collected.
Reports_AsCollected(unclosed) == {unclosed}

\* Line 106, list(set(unclosed)): the names of the list, each once, in the
\* order in which the set happens to be iterated.
Reports(unclosed) == Orderings({unclosed[i] : i \in DOMAIN unclosed})

\* HTMLStructureValidator._find_unclosed_tags: the lists it may return
_find_unclosed_tags(tags) ==
    LET scanned == ScanTags(tags, 1, <<>>, <<>>)
    IN Reports(scanned.unclosed \o scanned.stack)

InitHtml ==
    /\ NoAgent
    /\ va = IdleVA
    /\ orch = IdleOrch
    /\ fleet = IdleFleet
    /\ jsv = IdleJs
    /\ extractor = IdleExtractor
    /\ htmlv = IdleHtml
    /\ escaping = IdleEscaping

\* The scan is handed a text.
HtmlValidatorCall ==
    /\ htmlv.pc = "idle"
    /\ \E tags \in TagTexts : htmlv' = [IdleHtml EXCEPT !.pc = "start", !.tags = tags]
    /\ UNCHANGED <<agentVars, va, orch, fleet, jsv, extractor, escaping>>

\* The scan runs.
HtmlValidatorScan ==
    /\ htmlv.pc = "start"
    /\ \E out \in _find_unclosed_tags(htmlv.tags) :
         htmlv' = [htmlv EXCEPT !.pc = "done", !.out = out]
    /\ UNCHANGED <<agentVars, va, orch, fleet, jsv, extractor, escaping>>

\* The caller has read the result.
HtmlValidatorReturn ==
    /\ htmlv.pc = "done"
    /\ htmlv' = IdleHtml
    /\ UNCHANGED <<agentVars, va, orch, fleet, jsv, extractor, escaping>>

NextHtml == HtmlValidatorCall \/ HtmlValidatorScan \/ HtmlValidatorReturn

SpecHtml == InitHtml /\ [][NextHtml]_vars

\* =====================================================================
\* agents/react_agent.py: the parse of the generation response, lines
\* 792-811, and _fix_json_escaping.  A response is given by the characters
\* of one JSON string literal, the quotes included; "LF" is a line feed
\* typed as it is, the other characters are themselves.
\* =====================================================================

BodyChars == {"\\", "s", "+", "n", "2", "LF"}

ResponseTexts ==
    {<<"\"">> \o body \o <<"\"">> : body \in UNION {[1..n -> BodyChars] : n \in 0..MaxBodyLen}}

\* The letters json accepts after a backslash (u, which starts \uXXXX, is
\* not among the characters explored).
ValidEscapes == {"\"", "\\", "/", "b", "f", "n", "r", "t"}

\* json.loads on a string literal: the message of the JSONDecodeError, ""
\* when the text parses.  The scan starts after the opening quote.
RECURSIVE ScanString(_, _)
ScanString(text, k) ==
    IF k > Len(text) THEN "Unterminated string"
    ELSE IF text[k] = "\"" THEN (IF k = Len(text) THEN "" ELSE "Extra data")
    ELSE IF text[k] = "LF" THEN "Invalid control character"
    ELSE IF text[k] = "\\"
    THEN IF k = Len(text) THEN "Unterminated string"
         ELSE IF text[k + 1] \in ValidEscapes THEN ScanString(text, k + 2)
         ELSE "Invalid \\escape"
    ELSE ScanString(text, k + 1)

JSONDecodeError(text) == ScanString(text, 2)

\* _fix_json_escaping, lines 909-920: the patterns, in order.  "plus" is a
\* backslash, the letter and a plus sign; "plain" is a backslash and the
\* letter; "single" is line 919.
fixes ==
    <<[kind |-> "plus", letter |-> "s"], [kind |-> "plus", letter |-> "w"],
      [kind |-> "plus", letter |-> "d"], [kind |-> "plain", letter |-> "n"],
      [kind |-> "plain", letter |-> "t"], [kind |-> "plain", letter |-> "r"],
      [kind |-> "single", letter |-> ""]>>

\* The pattern matches the text at position i.
MatchesAt(fix, text, i) ==
    CASE fix.kind = "plus" ->
           /\ i + 2 <= Len(text)
           /\ text[i] = "\\" /\ text[i + 1] = fix.letter /\ text[i + 2] = "+"
      [] fix.kind = "plain" ->
           /\ i + 1 <= Len(text)
           /\ text[i] = "\\" /\ text[i + 1] = fix.letter
      [] fix.kind = "single" ->
           /\ i + 2 <= Len(text)
           /\ text[i] # "\\" /\ text[i + 1] = "\\" /\ text[i + 2] \notin {"\\", "\""}

MatchLen(fix) == IF fix.kind = "plain" THEN 2 ELSE 3

\* What the replacement template expands to: in the template of line 919
\* the group number 2 comes after an escaped backslash and is the digit 2.
Replacement(fix, text, i) ==
    CASE fix.kind = "plus" -> <<"\\", "\\", fix.letter, "\\", "+">>
      [] fix.kind = "plain" -> <<"\\", "\\", fix.letter>>
      [] fix.kind = "single" -> <<text[i], "\\", "\\", "\\", "2">>

\* re.sub, line 924: the matches from the left that do not overlap are
\* replaced.
RECURSIVE re_sub(_, _, _)
re_sub(fix, text, i) ==
    IF i > Len(text) THEN <<>>
    ELSE IF MatchesAt(fix, text, i)
    THEN Replacement(fix, text, i) \o re_sub(fix, text, i + MatchLen(fix))
    ELSE <<text[i]>> \o re_sub(fix, text, i + 1)

\* lines 922-926: the loop over the patterns from pattern k on
RECURSIVE ApplyFixes(_, _)
ApplyFixes(text, k) ==
    IF k > Len(fixes) THEN text ELSE ApplyFixes(re_sub(fixes[k], text, 1), k + 1)

\* ReactAgent._fix_json_escaping
_fix_json_escaping(content) == ApplyFixes(content, 1)

\* Lines 792-811: the text that was parsed, the error that leaves the block,
\* and whether the repair pass was run.
ParseResponse(content) ==
    LET e == JSONDecodeError(content)
        fixed_content == _fix_json_escaping(content)
    IN IF e = "" THEN [repair_tried |-> FALSE, html_content |-> content, raised |-> ""]
       ELSE IF e = "Invalid \\escape"
       THEN IF JSONDecodeError(fixed_content) = ""
            THEN [repair_tried |-> TRUE, html_content |-> fixed_content, raised |-> ""]
            ELSE [repair_tried |-> TRUE, html_content |-> <<>>, raised |-> e]
       ELSE [repair_tried |-> FALSE, html_content |-> <<>>, raised |-> e]

InitEscaping ==
    /\ NoAgent
    /\ va = IdleVA
    /\ orch = IdleOrch
    /\ fleet = IdleFleet
    /\ jsv = IdleJs
    /\ extractor = IdleExtractor
    /\ htmlv = IdleHtml
    /\ escaping = IdleEscaping

\* The model has answered the generation call.
EscapingRespond ==
    /\ escaping.pc = "idle"
    /\ \E content \in ResponseTexts :
         escaping' = [IdleEscaping EXCEPT !.pc = "start", !.content = content]
    /\ UNCHANGED <<agentVars, va, orch, fleet, jsv, extractor, htmlv>>

\* The response is parsed.
EscapingParse ==
    /\ escaping.pc = "start"
    /\ \E r \in {ParseResponse(escaping.content)} :
         escaping' = [escaping EXCEPT !.pc = "done", !.repair_tried = r.repair_tried,
                                      !.html_content = r.html_content,
                                      !.raised = r.raised]
    /\ UNCHANGED <<agentVars, va, orch, fleet, jsv, extractor, htmlv>>

\* The generation has gone on, or has returned the error.
EscapingReturn ==
    /\ escaping.pc = "done"
    /\ escaping' = IdleEscaping
    /\ UNCHANGED <<agentVars, va, orch, fleet, jsv, extractor, htmlv>>

NextEscaping == EscapingRespond \/ EscapingParse \/ EscapingReturn

SpecEscaping == InitEscaping /\ [][NextEscaping]_vars

\* =====================================================================
\* Properties
\* =====================================================================

Min(a, b) == IF a < b THEN a ELSE b

\* C1: in every state of an execution, and in the result it returns,
\* iterations_completed is at most max_iterations.
C1_IterationsWithinBudget ==
    /\ iterations_completed <= max_iterations
    /\ (result.returned /\ result.success) => result.iterations_completed <= max_iterations

C1_Witness ==
    /\ pc = "returned"
    /\ result.success
    /\ max_iterations >= 2
    /\ result.iterations_completed = max_iterations

\* C2: when an execution has returned, llm_calls_made is at most
\* max_llm_calls.
C2_CallsWithinBudgetAtReturn ==
    pc = "returned" => llm_calls_made <= max_llm_calls

\* C3: ready_to_generate becomes true only in a state whose tool_results
\* hold at least 2 successful records, one of them a successful
\* fetch_stac_sample_data.
C3_GenerateOnlyWhenGrounded ==
    [][(~context.ready_to_generate /\ context'.ready_to_generate)
         => /\ SuccessfulToolCalls(context.tool_results) >= MinSuccessfulToolCalls
            /\ StacCallsMade(context.tool_results) >= 1]_vars

InLoop == pc \in {"loop", "reason", "act"}

\* C4: a reasoning step starts only while ready_to_generate is false and
\* both counters are below their maxima, the loop is left at the first test
\* where that fails, the iterations never exceed min(max_iterations,
\* max_llm_calls), and an execution that is in the loop leaves it.
C4_LoopTerminates ==
    /\ [](iterations_completed <= Min(max_iterations, max_llm_calls))
    /\ [][pc' = "reason" => /\ pc = "loop"
                            /\ ~context.ready_to_generate
                            /\ iterations_completed < max_iterations
                            /\ llm_calls_made < max_llm_calls
                            /\ iterations_completed' = iterations_completed + 1]_vars
    /\ [][(/\ pc = "loop"
           /\ \/ context.ready_to_generate
              \/ iterations_completed >= max_iterations
              \/ llm_calls_made >= max_llm_calls) => pc' = "generate"]_vars
    /\ (InLoop ~> ~InLoop)

C4_Witness ==
    /\ pc = "generate"
    /\ ~context.ready_to_generate
    /\ max_llm_calls < max_iterations
    /\ iterations_completed = max_llm_calls - 1
    /\ iterations_completed >= 1

\* C5: validate_and_fix reports content_fixed = true only when the returned
\* content validates with fewer issues than the content passed in.
C5_FixedMeansFewerThanOriginal ==
    (va.pc = "done" /\ va.out.content_fixed)
        => va.out.final_validation.total_issues < va.out.original_validation.total_issues

\* The model answers every fix call with the content it was sent.
IdenticalAnswers ==
    /\ va.answers[1] = [kind |-> "dict", content |-> va.input]
    /\ va.answers[2] = [kind |-> "dict", content |-> FillFromPrior(va.input, va.input)]

\* C6: on a content with at least one issue, a model that returns the
\* content it was given on both fix calls leads to exactly 2 attempts,
\* content_fixed = false and the original content.
C6_IdenticalAnswersNotFixed ==
    (/\ va.pc = "done"
     /\ va.has_client
     /\ validate_generated_content(va.input).needs_fixing
     /\ IdenticalAnswers)
        => /\ va.out.fix_attempts = max_fix_attempts
           /\ ~va.out.content_fixed
           /\ va.out.html_content = va.input

C6_Witness ==
    /\ va.pc = "done"
    /\ va.has_client
    /\ validate_generated_content(va.input).total_issues >= 2
    /\ IdenticalAnswers
    /\ va.out.fix_attempts = 2

SeverityRank(sev) == IF sev = "high" THEN 2 ELSE IF sev = "medium" THEN 1 ELSE 0

\* The greatest, under high > medium > low, of the severities of the
\* analyzers that ran ("low" when none did).
MaxSeverityOf(rs) ==
    LET sevs == {rs[i].severity : i \in {j \in DOMAIN rs : rs[j].success}} \cup {"low"}
    IN CHOOSE m \in sevs : \A x \in sevs : SeverityRank(x) <= SeverityRank(m)

Permutations3 == {p \in [1..3 -> 1..3] : \A i, j \in 1..3 : i # j => p[i] # p[j]}

\* C7: overall_severity is the maximum of the analyzers' severities, in
\* whatever order the three results are aggregated.
C7_OverallSeverityIsMaximum ==
    orch.pc = "done" =>
        LET rs == orch.out.detailed_results
        IN /\ orch.out.overall_severity = MaxSeverityOf(rs)
           /\ \A p \in Permutations3 :
                AggregateResults([i \in 1..3 |-> rs[p[i]]]).overall_severity
                    = MaxSeverityOf(rs)

C7_Witness ==
    /\ orch.pc = "done"
    /\ orch.out.detailed_results[1].severity = "high"
    /\ orch.out.detailed_results[2].severity = "medium"
    /\ orch.out.detailed_results[3].severity = "low"
    /\ orch.out.overall_severity = "high"

\* C8: every result of execute has a boolean success; a successful one
\* carries a content mapping with the five fields and the diagnostics, a
\* failed one an error string.
C8_StructuredResult ==
    result.returned =>
        /\ "success" \in result.keys
        /\ result.success =>
             /\ SuccessKeys \ {"context"} \subseteq result.keys
             /\ result.html_content.shape = "dict"
             /\ RequiredFields \subseteq result.html_content.fields
        /\ ~result.success => ("error" \in result.keys /\ result.error # "")

\* A step in which an exception reaches the handler of execute: the plan
\* has no summary, the action name is unhashable, or the intelligence
\* summary raises.
UncaughtException ==
    \/ pc = "planning" /\ ~context.planning_completed
                       /\ context'.implementation_plan = "plan_no_summary"
    \/ pc = "act" /\ action.action = ListName
    \/ pc = "generate" /\ client /\ IntelligenceSummaryRaises(context.tool_results)

\* C9: an exception that reaches the handler of execute ends the execution
\* at once: the session is saved as failed, the result is
\* {success: false, error, context} with the context accumulated so far, and
\* no step of that execution follows.
C9_FatalAbortsExecution ==
    /\ [][UncaughtException =>
            /\ pc' = "returned"
            /\ session'.task_status = "failed"
            /\ session'.context = context'
            /\ result'.returned /\ ~result'.success
            /\ result'.keys = {"success", "error", "context"}
            /\ result'.error # ""
            /\ context'.tool_results = context.tool_results
            /\ context'.reasoning_steps = context.reasoning_steps
            /\ UNCHANGED <<iterations_completed, html_content>>]_vars
    /\ [][pc = "returned" => executions' = executions + 1]_vars

C9_Witness ==
    /\ pc = "returned"
    /\ session.task_status = "failed"
    /\ Len(context.tool_results) >= 1
    /\ result.keys = ErrorContextKeys

\* C10: a planning phase that fails ends the execution with
\* "Planning failed: <reason>" and nothing else has run: no iteration, no
\* tool, no generation, tool_results as they were.
C10_PlanningFailureReturns ==
    /\ [][(/\ pc = "planning"
           /\ ~context.planning_completed
           /\ context'.implementation_plan = "absent")
            => /\ pc' = "returned"
               /\ result'.returned /\ ~result'.success
               /\ result'.keys = {"success", "error"}
               /\ result'.error \in PlanningErrors
               /\ context' = context
               /\ iterations_completed' = 0
               /\ model_calls' <= 1
               /\ html_content' = NoneContent]_vars
    /\ [][(pc = "planning" /\ ~context.planning_completed
                           /\ (~client \/ llm_calls_made >= max_llm_calls))
            => /\ pc' = "returned"
               /\ result'.error \in PlanningErrors
               /\ UNCHANGED <<llm_calls_made, model_calls>>]_vars

C10_Witness ==
    /\ pc = "returned"
    /\ result.error = "Planning failed: Failed to parse planning JSON"
    /\ iterations_completed = 0
    /\ client

LastToolResult(ctx) == ctx.tool_results[Len(ctx.tool_results)]

\* C11: a registered tool that fails, by raising or by answering with a
\* failure, never ends the acting step with an exception: the step adds one
\* record to tool_results, with success false and an error message when the
\* tool failed, and goes on to the next loop test with the execution still
\* running.
C11_ToolFailureIsRecorded ==
    [][(pc = "act" /\ action.action \in RegisteredTools)
         => /\ pc' = "loop"
            /\ ~result'.returned
            /\ session'.task_status = "executing"
            /\ Len(context'.tool_results) = Len(context.tool_results) + 1
            /\ LastToolResult(context').action = action.action
            /\ LastToolResult(context').iteration = iterations_completed
            /\ (~LastToolResult(context').success
                  => LastToolResult(context').error # "")]_vars

C11_Witness ==
    /\ pc = "loop"
    /\ Len(context.tool_results) >= 1
    /\ LastToolResult(context).action \in RegisteredTools
    /\ LastToolResult(context).parameters = "dict"
    /\ ~LastToolResult(context).success
    /\ LastToolResult(context).error = "tool error"

\* C12: an action name that is no registered tool (and no sentinel) is
\* recorded as {success: false, error: "Tool '<name>' not found"}, the
\* execution goes on to the next loop test and does not become failed.
C12_UnknownToolIsRecoverable ==
    [][(pc = "act" /\ action.action \notin RegisteredTools)
         => /\ pc' = "loop"
            /\ ~result'.returned
            /\ session'.task_status # "failed"
            /\ Len(context'.tool_results) = Len(context.tool_results) + 1
            /\ ~LastToolResult(context').success
            /\ LastToolResult(context').error = "Tool not found"]_vars

\* C13: a reasoning answer that does not parse as a decision (it is not
\* JSON, or it is JSON but no mapping) counts as no_action: no tool runs in
\* that iteration, ready_to_generate stays false, the execution is not
\* failed and the loop goes on to its next test.
C13_UnparseableReasoningIsNoAction ==
    [][(pc = "reason" /\ action'.reasoning \in {JSONParsingFailed, NotAMappingError})
         => /\ action'.action = "no_action"
            /\ pc' = "loop"
            /\ ~context'.ready_to_generate
            /\ context'.tool_results = context.tool_results
            /\ session'.task_status # "failed"
            /\ ~result'.returned]_vars

\* C14: a reasoning step whose model call raises (a timeout, an API error)
\* does not end the research loop and does not fail the execution: while
\* both budgets allow a further reasoning step, the loop goes on to its next
\* test with ready_to_generate still false.
C14_ReasoningCallFailureIsRecoverable ==
    [][(/\ pc = "reason"
        /\ action'.reasoning = ModelCallError
        /\ iterations_completed < max_iterations
        /\ llm_calls_made' < max_llm_calls)
         => /\ pc' = "loop"
            /\ ~context'.ready_to_generate
            /\ session'.task_status # "failed"
            /\ ~result'.returned]_vars

\* The sequence is left as it was, or got exactly one record at its end.
SameOrOneAppended(before, after) ==
    \/ after = before
    \/ /\ Len(after) = Len(before) + 1
       /\ SubSeq(after, 1, Len(before)) = before

\* C15: every step of an execution leaves tool_results and reasoning_steps
\* as they were or adds exactly one record at the end; no record is removed,
\* moved or changed.
C15_AppendOnly ==
    [][/\ SameOrOneAppended(context.tool_results, context'.tool_results)
       /\ SameOrOneAppended(context.reasoning_steps, context'.reasoning_steps)]_vars

C15_Witness ==
    /\ pc = "returned"
    /\ result.success
    /\ Len(context.tool_results) >= 2
    /\ Len(context.reasoning_steps) >= 3
    /\ context.tool_results[1].action # context.tool_results[2].action

\* C16: ready_to_generate goes from false to true only, so at most once
\* in an execution, and from a state where it is true no reasoning step and
\* no tool execution follows.
C16_ReadyToGenerateIsFinal ==
    /\ [][context.ready_to_generate
            => /\ context'.ready_to_generate
               /\ pc' \notin {"reason", "act"}
               /\ context'.reasoning_steps = context.reasoning_steps
               /\ context'.tool_results = context.tool_results]_vars
    /\ [](context.ready_to_generate => pc \notin {"reason", "act"})

C16_Witness ==
    /\ pc = "returned"
    /\ context.ready_to_generate
    /\ result.success
    /\ action.reasoning = "<given by the model>"
    /\ SuccessfulToolCalls(context.tool_results) >= MinSuccessfulToolCalls

\* C17: during an execution iterations_completed and llm_calls_made never
\* decrease (they are never reset), and a reasoning step starts, and makes
\* its model call, only after the counters were found below their maxima.
C17_CountersMonotoneAndChecked ==
    /\ [][executions' = executions
            => /\ iterations_completed' >= iterations_completed
               /\ llm_calls_made' >= llm_calls_made]_vars
    /\ [][pc' = "reason"
            => /\ iterations_completed < max_iterations
               /\ llm_calls_made < max_llm_calls]_vars
    /\ [][(pc = "reason" /\ llm_calls_made' # llm_calls_made)
            => /\ llm_calls_made < max_llm_calls
               /\ llm_calls_made' = llm_calls_made + 1]_vars

C17_Witness ==
    /\ pc = "returned"
    /\ result.success
    /\ iterations_completed = 2
    /\ llm_calls_made = 4
    /\ max_iterations = 2

\* C18: when the content in force after generation and repair holds an
\* invalid URL and the call budget is not used up after the generation call,
\* URL validation reports it and exactly one URL-fix model call follows:
\* llm_calls_made rises by one for generation and by one for the fix.
C18_InvalidUrlsAreFixedOnce ==
    [][(/\ pc = "generate"
        /\ result'.returned /\ result'.success
        /\ html_validation'.html_content.urls = "invalid"
        /\ llm_calls_made + 1 < max_llm_calls)
         => /\ url_validation'.has_invalid_urls
            /\ llm_calls_made' = llm_calls_made + 2]_vars

\* C19: the content in force after generation, after an accepted repair
\* and after a URL fix is a mapping that has all five required fields.
C19_ContentInForceHasFiveFields ==
    /\ html_content # NoneContent
         => /\ html_content.shape = "dict"
            /\ RequiredFields \subseteq html_content.fields
    /\ html_validation.content_fixed
         => /\ html_validation.html_content.shape = "dict"
            /\ RequiredFields \subseteq html_validation.html_content.fields

C21_IssuesAreConcatenated ==
    orch.pc = "done"
        => LET rs == orch.out.detailed_results
           IN /\ orch.out.issues = rs[1].issue_list \o rs[2].issue_list \o rs[3].issue_list
              /\ orch.out.total_issues = Len(orch.out.issues)
              /\ orch.out.needs_fixing <=> orch.out.total_issues > 0

\* C22: when an execution begins, also one on the session id of an earlier
\* execution, tool_results and reasoning_steps are empty, ready_to_generate
\* is false and there is no plan, so that its planning phase runs.
C22_ExecutionStartsFresh ==
    pc \in {"constructed", "planning"}
        => /\ context.tool_results = <<>>
           /\ context.reasoning_steps = <<>>
           /\ ~context.ready_to_generate
           /\ ~context.planning_completed
           /\ context.implementation_plan = "absent"


\* Two agents whose session ids differ.
DistinctSessions == fleet.agents[1].session_id # fleet.agents[2].session_id

\* C23: of two executions with distinct session ids, interleaved in any
\* order, each has at every moment the context, the counters, the result and
\* the persisted session row it has when it runs alone with the same model
\* and tool answers; and a step changes the fields of one agent only.
C23_DistinctSessionsAreIndependent ==
    /\ [](DistinctSessions
            => \A i \in AgentIds :
                 /\ fleet.agents[i] = fleet.alone[i].agent
                 /\ fleet.rows[fleet.agents[i].session_id] = fleet.alone[i].row)
    /\ [][DistinctSessions
            => \E i \in AgentIds :
                 \A j \in AgentIds \ {i} :
                    /\ fleet'.agents[j] = fleet.agents[j]
                    /\ fleet'.rows[fleet.agents[j].session_id]
                         = fleet.rows[fleet.agents[j].session_id]]_vars

\* Both executions are under way at once, each with a context of its own.
C23_Witness ==
    /\ DistinctSessions
    /\ fleet.agents[1].pc = "act"
    /\ fleet.agents[2].pc = "generate"
    /\ Len(fleet.agents[2].context.tool_results) = 1
    /\ fleet.rows["agent_2"].context.tool_results # <<>>
    /\ fleet.rows["agent_1"].context.tool_results = <<>>


\* The place of a call in the order of the phases.
PhaseRank(p) ==
    CASE p = "planning" -> 1
      [] p \in {"reasoning", "tool"} -> 2
      [] p = "generation" -> 3
      [] p = "repair" -> 4
      [] p = "url_validation" -> 5
      [] p = "url_fix" -> 6

Occurrences(p) == Cardinality({i \in DOMAIN phases : phases[i] = p})

\* C24: the calls of one execution are made in the order of the phases: the
\* planning call before every reasoning call and tool execution, these
\* before the generation call, the repair after the generation call and
\* before the URL validation; and the generation call is made at most once.
C24_PhasesInFixedOrder ==
    /\ \A i, j \in DOMAIN phases :
         i < j => PhaseRank(phases[i]) <= PhaseRank(phases[j])
    /\ Occurrences("generation") <= 1
    /\ Occurrences("repair") = Occurrences("url_validation")
    /\ Occurrences("repair") <= Occurrences("generation")

\* An execution that went through every phase.
C24_Witness ==
    /\ pc = "returned"
    /\ result.success
    /\ \E n \in 1..MaxIterationsSetting :
         phases = <<"planning">>
                  \o [k \in 1..(2 * n) |-> IF k % 2 = 1 THEN "reasoning" ELSE "tool"]
                  \o <<"generation", "repair", "url_validation">>


\* C25: in one execution the repair agent makes at most max_fix_attempts fix
\* calls, the URL fix makes at most one call and only within the call
\* budget, and no other call is made again after it failed: one planning
\* call, one generation call, one repair and one URL validation at most,
\* and at most one reasoning call and one tool execution per iteration.
C25_RetriesAreBounded ==
    /\ html_validation.fix_attempts <= max_fix_attempts
    /\ Occurrences("url_fix") <= 1
    /\ Occurrences("url_fix") = 1 => llm_calls_made <= max_llm_calls
    /\ \A p \in {"planning", "generation", "repair", "url_validation"} :
         Occurrences(p) <= 1
    /\ Occurrences("reasoning") <= iterations_completed
    /\ Occurrences("tool") <= iterations_completed

\* The repair agent used both attempts and neither was accepted.
C25_Witness ==
    /\ pc = "returned"
    /\ html_validation.fix_attempts = max_fix_attempts
    /\ ~html_validation.content_fixed
    /\ Occurrences("repair") = 1


BraceIssues == {i \in DOMAIN jsv.issues : jsv.issues[i].kind = "braces"}

\* C26: the analyzer reports a brace issue exactly when the text has not as
\* many "{" as "}"; with N more "{" the issue reads "Unmatched braces: N
\* opening braces", with N more "}" it reads "Unmatched braces: N closing
\* braces"; 3 more "{" give "Unmatched braces: 3 opening braces".
C26_BraceIssueCountsSurplus ==
    jsv.pc = "done"
        => LET opening == Count(jsv.js, "{")
               closing == Count(jsv.js, "}")
           IN /\ BraceIssues # {} <=> opening # closing
              /\ Cardinality(BraceIssues) <= 1
              /\ \A i \in BraceIssues :
                   /\ opening > closing
                        => jsv.issues[i].text
                             = "Unmatched braces: " \o ToString(opening - closing)
                               \o " opening braces"
                   /\ opening < closing
                        => jsv.issues[i].text
                             = "Unmatched braces: " \o ToString(closing - opening)
                               \o " closing braces"
                   /\ opening - closing = 3
                        => jsv.issues[i].text = "Unmatched braces: 3 opening braces"

\* A text with 3 more "{" than "}" was analyzed.
C26_Witness ==
    /\ jsv.pc = "done"
    /\ Count(jsv.js, "{") = 3
    /\ Count(jsv.js, "}") = 0
    /\ Count(jsv.js, "(") = 1
    /\ \E i \in DOMAIN jsv.issues : jsv.issues[i].text = "Unmatched braces: 3 opening braces"


\* The text is one fetch('<c>') call that no other pattern matches.
OnlyMatchIsOneFetch ==
    /\ Len(extractor.content) = 1
    /\ extractor.content[1].form = "fetch"
    /\ Len(AllMatches(extractor.content)) = 1

\* What C27 holds of every text but the single fetch call.
ExtractorFiltersAndCounts ==
    /\ \A k \in DOMAIN extractor.urls :
         /\ extractor.urls[k].url.prefix \in {"http://", "https://", "/"}
         /\ ~extractor.urls[k].url.pad
         /\ extractor.urls[k].url.words \cap api_indicators # {}
    /\ \A j, k \in DOMAIN extractor.urls :
         j # k => extractor.urls[j].url # extractor.urls[k].url
    /\ \A k \in DOMAIN extractor.urls :
         \A m \in DOMAIN Extracted(extractor.content) :
            Extracted(extractor.content)[m].url = extractor.urls[k].url
                => \E n \in 1..m : Extracted(extractor.content)[n] = extractor.urls[k]
    /\ extractor.out.urls_found
         = Len(extractor.out.valid_urls) + Len(extractor.out.invalid_urls)

\* C27 as stated: the extractor returns only strings that start with
\* http://, https:// or / and contain an API indicator, returns no URL twice
\* (the first occurrence is kept), returns for a text whose only match is
\* one fetch('<url>') call exactly one entry whose url is <url>, and
\* urls_found is the number of valid plus invalid URLs.
C27_SingleFetchIsReturned ==
    extractor.pc = "done"
        => /\ ExtractorFiltersAndCounts
           /\ OnlyMatchIsOneFetch
                => /\ Len(extractor.urls) = 1
                   /\ extractor.urls[1].url = extractor.content[1].url

\* C27, amended: as stated, but the single fetch('<url>') call gives one
\* entry, whose url is <url> without the blanks around it, when that string
\* starts with http://, https:// or / and contains an API indicator, and
\* gives no entry otherwise.
C27_SingleLikelyFetchIsReturned ==
    extractor.pc = "done"
        => /\ ExtractorFiltersAndCounts
           /\ OnlyMatchIsOneFetch
                => LET url == strip(extractor.content[1].url)
                   IN IF _is_likely_url(url)
                      THEN /\ Len(extractor.urls) = 1
                           /\ extractor.urls[1].url = url
                      ELSE extractor.urls = <<>>

\* A text of two statements with the same URL was extracted from: the entry
\* kept is that of the fetch pattern, and the HEAD request found it valid.
C27_Witness ==
    /\ extractor.pc = "done"
    /\ Len(extractor.content) = 2
    /\ extractor.content[1].form = "axios.get"
    /\ extractor.content[2].form = "fetch"
    /\ Len(extractor.urls) = 1
    /\ extractor.urls[1].line_number = 2
    /\ Len(extractor.out.valid_urls) = 1


\* The reasons the guardrail gives for a blocked generation.
BlockedForResearch == "Insufficient research completed"
BlockedForCatalog == "Must fetch sample data from configured STAC sources"

\* The reasoning step returns a decision the guardrail has put in place of
\* the model's generate_final_html.
GuardrailBlocks ==
    /\ pc = "reason"
    /\ pc' # "reason"
    /\ action'.reasoning \in {BlockedForResearch, BlockedForCatalog}

\* C28: when the guardrail blocks a generate_final_html of the model, the
\* reason is the lack of research whenever fewer than MinSuccessfulToolCalls
\* tool results are successful and the missing catalog fetch only otherwise;
\* the decision is no_action with continue true, one reasoning step with
\* action no_action is appended, no tool runs and tool_results is unchanged,
\* and the iteration has been counted and the call is counted.
C28_BlockedGenerationIsNoAction ==
    [][GuardrailBlocks
         => /\ action'.reasoning = BlockedForResearch
                 <=> SuccessfulToolCalls(context.tool_results) < MinSuccessfulToolCalls
            /\ action'.reasoning = BlockedForCatalog
                 => StacCallsMade(context.tool_results) = 0
            /\ action'.action = "no_action"
            /\ action'.continue = "true"
            /\ context'.reasoning_steps
                 = Append(context.reasoning_steps,
                          [iteration |-> iterations_completed, action |-> "no_action"])
            /\ context'.tool_results = context.tool_results
            /\ ~context'.ready_to_generate
            /\ pc' = "loop"
            /\ phases' = Append(phases, "reasoning")
            /\ llm_calls_made' = llm_calls_made + 1
            /\ iterations_completed' = iterations_completed
            /\ iterations_completed >= Occurrences("reasoning") + 1]_vars

\* A generation was blocked for the missing catalog fetch after two
\* successful tool calls.
C28_Witness ==
    /\ pc = "loop"
    /\ action.reasoning = BlockedForCatalog
    /\ SuccessfulToolCalls(context.tool_results) = MinSuccessfulToolCalls
    /\ iterations_completed = 3
    /\ llm_calls_made = 4


\* The records this execution has appended so far, while it is in its loop:
\* one for every tool it has run.
AppendedSoFar ==
    SubSeq(context.tool_results,
           Len(context.tool_results) - Occurrences("tool") + 1,
           Len(context.tool_results))

\* C29: a loop iteration runs at most one tool and appends at most one
\* record to tool_results, whose iteration field is iterations_completed;
\* the records an execution appends are at most iterations_completed and
\* their iteration fields strictly increase; an iteration whose action is
\* no_action, empty or generate_final_html appends nothing.
C29_OneRecordPerIteration ==
    /\ [](executions = 1
            => /\ Len(context.tool_results) <= iterations_completed
               /\ \A i, j \in DOMAIN context.tool_results :
                    i < j => context.tool_results[i].iteration
                               < context.tool_results[j].iteration)
    /\ [](InLoop => Occurrences("tool") <= Len(context.tool_results))
    /\ [][pc # "returned" /\ context'.tool_results # context.tool_results
            => /\ pc = "act"
               /\ action.action \notin {"", "no_action", "generate_final_html"}
               /\ Len(context'.tool_results) = Len(context.tool_results) + 1
               /\ SubSeq(context'.tool_results, 1, Len(context.tool_results))
                    = context.tool_results
               /\ LastToolResult(context').iteration = iterations_completed
               /\ Occurrences("tool") < iterations_completed
               /\ \A k \in DOMAIN AppendedSoFar :
                    AppendedSoFar[k].iteration < iterations_completed]_vars
    /\ [][pc = "reason" /\ action'.action \in {"", "no_action", "generate_final_html"}
            => /\ context'.tool_results = context.tool_results
               /\ pc' # "act"
               /\ phases' = phases \/ phases' = Append(phases, "reasoning")]_vars

\* The first and the third iteration ran a tool, the second one did not.
C29_Witness ==
    /\ pc = "loop"
    /\ executions = 1
    /\ iterations_completed = 3
    /\ Len(context.tool_results) = 2
    /\ context.tool_results[1].iteration = 1
    /\ context.tool_results[2].iteration = 3


\* C30: every loop iteration raises llm_calls_made by exactly one: the
\* reasoning step of the iteration raises it by one whatever its outcome,
\* the test of the loop and the acting step leave it alone; and when a first
\* execution with a model client has returned after its planning,
\* llm_calls_made is at least iterations_completed + 1.
C30_EveryIterationMakesOneCall ==
    /\ [][/\ (pc = "reason") => (llm_calls_made' = llm_calls_made + 1)
          /\ (pc \in {"loop", "act"}) => (llm_calls_made' = llm_calls_made)]_vars
    /\ []((pc = "returned" /\ executions = 1 /\ client /\ context.planning_completed)
            => llm_calls_made >= iterations_completed + 1)

\* The record that the acting step has just added to tool_results.
LastObservation == context'.tool_results[Len(context'.tool_results)]

\* C31: in the acting step, parameters that are no mapping never reach the
\* tool as given: a bare string for web_search is wrapped as {query: ...}
\* and the tool is executed; a bare string for another tool, and any other
\* value that is no mapping, give success false with the error "Invalid
\* parameters format" without the tool being executed; in both cases the
\* result is appended to tool_results.
C31_NonMappingParametersAreWrappedOrRejected ==
    [][(pc = "act" /\ action.action \in RegisteredTools /\ action.parameters # "dict")
         => /\ pc' = "loop"
            /\ Len(context'.tool_results) = Len(context.tool_results) + 1
            /\ SubSeq(context'.tool_results, 1, Len(context.tool_results))
                  = context.tool_results
            /\ LastObservation.action = action.action
            /\ IF action.parameters = "str" /\ action.action = "web_search"
               THEN LastObservation.executed_with = "query"
               ELSE /\ LastObservation.executed_with = ""
                    /\ ~LastObservation.success
                    /\ LastObservation.error = "Invalid parameters format"]_vars

\* A bare string for web_search was wrapped and the search succeeded, and a
\* value that is no mapping was rejected for another tool.
C31_Witness ==
    /\ \E i \in DOMAIN context.tool_results :
          /\ context.tool_results[i].action = "web_search"
          /\ context.tool_results[i].parameters = "str"
          /\ context.tool_results[i].executed_with = "query"
          /\ context.tool_results[i].success
    /\ \E i \in DOMAIN context.tool_results :
          /\ context.tool_results[i].action # "web_search"
          /\ context.tool_results[i].parameters # "dict"
          /\ context.tool_results[i].error = "Invalid parameters format"

Match(a, b) == ~a.is_closing /\ b.is_closing /\ lower(a.tag_name) = lower(b.tag_name)

WithoutVoid(tags) == SelectSeq(tags, LAMBDA t : lower(t.tag_name) \notin VoidElements)

\* A sequence of tags is properly nested when taking out, again and again,
\* an opening tag directly followed by its closing tag leaves nothing.
RECURSIVE ProperlyNested(_)
ProperlyNested(tags) ==
    \/ tags = <<>>
    \/ \E i \in 1..(Len(tags) - 1) :
          /\ Match(tags[i], tags[i + 1])
          /\ ProperlyNested(SubSeq(tags, 1, i - 1) \o SubSeq(tags, i + 2, Len(tags)))

\* C33: for every sequence of tags the tag-balance scan reports no unclosed
\* tag exactly when the sequence without the void elements img, br, hr,
\* meta, link, input is properly nested; otherwise every name it reports is
\* reported once and is the name of a tag of the sequence that is no void
\* element.
C33_ScanAcceptsExactlyProperNesting ==
    htmlv.pc = "done"
    => /\ (htmlv.out = <<>>) <=> ProperlyNested(WithoutVoid(htmlv.tags))
       /\ \A i, j \in DOMAIN htmlv.out : htmlv.out[i] = htmlv.out[j] => i = j
       /\ \A i \in DOMAIN htmlv.out :
             \E k \in DOMAIN htmlv.tags :
                 /\ lower(htmlv.tags[k].tag_name) = htmlv.out[i]
                 /\ htmlv.out[i] \notin VoidElements

\* Two div elements stay open and a p is closed that was never opened: both
\* names are reported, each once.
C33_Witness ==
    /\ htmlv.pc = "done"
    /\ Len(htmlv.tags) = 3
    /\ htmlv.tags[1] = [is_closing |-> FALSE, tag_name |-> "div"]
    /\ htmlv.tags[2] = [is_closing |-> FALSE, tag_name |-> "DIV"]
    /\ htmlv.tags[3] = [is_closing |-> TRUE, tag_name |-> "p"]
    /\ Len(htmlv.out) = 2

\* C34: whenever the generation response is malformed JSON, one
\* escaping-repair pass is tried before giving up: if the repaired text
\* parses, generation continues with it; if it does not, the parse error is
\* what the generation returns.
C34_MalformedJsonIsRepairedOnce ==
    (escaping.pc = "done" /\ JSONDecodeError(escaping.content) # "")
    => /\ escaping.repair_tried
       /\ IF JSONDecodeError(_fix_json_escaping(escaping.content)) = ""
          THEN /\ escaping.html_content = _fix_json_escaping(escaping.content)
               /\ escaping.raised = ""
          ELSE escaping.raised = JSONDecodeError(escaping.content)

\* C35: when execute returns, the persisted session status is terminal and
\* agrees with the result: it is "completed" exactly when the result has
\* success true, it is "failed" whenever the result has success false, and
\* it is never left at "executing".
C35_StatusAgreesWithResult ==
    (pc = "returned" /\ result.returned)
    => /\ (session.task_status = "completed") <=> result.success
       /\ ~result.success => session.task_status = "failed"
       /\ session.task_status # "executing"

\* C36: llm_calls_made is the number of model calls issued during the
\* execution (planning, reasoning, generation, repair and URL fixing each
\* raise it by one), so an execution makes at most max_llm_calls model calls.
C36_CounterCountsEveryModelCall ==
    /\ llm_calls_made = model_calls
    /\ model_calls <= max_llm_calls

\* C37: in every reachable state llm_calls_made <= max_llm_calls + 1; the
\* value max_llm_calls + 1 is reached only by the one generation call, made
\* when the loop has ended with the call budget used up; and a generation
\* that also makes the URL fix call does not raise the counter above
\* max_llm_calls.
C37_CounterExceedsBudgetByOneAtMost ==
    /\ [](llm_calls_made <= max_llm_calls + 1)
    /\ [][/\ ((llm_calls_made' = max_llm_calls' + 1 /\ llm_calls_made' # llm_calls_made)
               => (/\ pc = "generate"
                   /\ llm_calls_made = max_llm_calls
                   /\ max_llm_calls' = max_llm_calls))
           /\ ((pc = "generate" /\ llm_calls_made' > llm_calls_made + 1)
               => llm_calls_made' <= max_llm_calls)]_vars

\* The budget was used up when the loop ended, and the generation call was
\* made all the same.
C37_Witness ==
    /\ pc = "returned"
    /\ max_llm_calls > 0
    /\ llm_calls_made = max_llm_calls + 1
    /\ result.success

\* The generation step calls the model.
GenerationCallIssued == pc = "generate" /\ llm_calls_made' > llm_calls_made

\* C38: the generation model call is issued only when ready_to_generate is
\* true, that is only when the context holds at least 2 successful tool
\* results, one of them a successful catalog fetch; an execution whose loop
\* ended because a budget ran out does not generate.
C38_GenerationOnlyFromGroundedContext ==
    [][GenerationCallIssued
         => /\ context.ready_to_generate
            /\ SuccessfulToolCalls(context.tool_results) >= MinSuccessfulToolCalls
            /\ StacCallsMade(context.tool_results) >= 1]_vars

\* C39: two ReactAgent instances constructed without an explicit
\* session_id, at any two times and in any interleaving, get distinct
\* session ids, so neither loads the other's persisted context at
\* construction nor overwrites it on write-back: each has the context and
\* the persisted row it has when it runs alone.
C39_DefaultSessionIdsAreDistinct ==
    (\A i \in AgentIds : fleet.agents[i].pc \notin {"idle", "new"})
    => /\ DistinctSessions
       /\ \A i \in AgentIds :
             /\ fleet.agents[i].context = fleet.alone[i].agent.context
             /\ fleet.rows[fleet.agents[i].session_id] = fleet.alone[i].row

====
